---- MODULE Spec2Model ----
(***************************************************************************)
(* QuickConvert: the client-side converter pages.                          *)
(*                                                                         *)
(* One page hosts one converter script.  The scripts are                   *)
(*   svg       converter-svg.js                                            *)
(*   webp      converter-webp.js                                           *)
(*   heic      converter-heic.js, DOMContentLoaded variant (lines 1-386)   *)
(*   heicLazy  converter-heic.js, lazy-loading variant (lines 388-686)     *)
(*   pdfLazy   converter-image-pdf.js, lazy-loading variant (lines 1-433)  *)
(*   pdf       converter-image-pdf.js, DOMContentLoaded variant (435-1099) *)
(*                                                                         *)
(* The browser runs one handler at a time, to completion or to its next    *)
(* await: every action below is one such run.  A conversion that awaits    *)
(* its adapter is an entry of inflight; its continuation is a Settle       *)
(* action.  A disabled button receives no click, and a form whose submit   *)
(* button is disabled is not submitted.                                    *)
(***************************************************************************)
EXTENDS Integers, Sequences, FiniteSets, TLC

(***************************************************************************)
(* Bounds of the model.                                                    *)
(***************************************************************************)
\* result object URLs a page may create in one behaviour
MaxUrls == 2
\* files in one drop / one file-input selection of the image/PDF converters
MaxSel == 2
\* file reads of the SVG converter that may be pending at once
MaxReads == 2

(***************************************************************************)
(* Files.  A file is its name (base and extension), MIME type and size.    *)
(***************************************************************************)
\* 20 MB, converter-webp.js:45, converter-heic.js:44, converter-image-pdf.js:480
MAX_SIZE == 20 * 1024 * 1024

File(b, e, t, s) == [base |-> b, ext |-> e, type |-> t, size |-> s]

fPng    == File("a", "png",  "image/png",       1024)
fJpgMax == File("b", "jpg",  "image/jpeg",      MAX_SIZE)
fJpgBig == File("c", "jpg",  "image/jpeg",      MAX_SIZE + 1)
fWebp   == File("d", "webp", "image/webp",      1024)
fHeic   == File("e", "heic", "image/heic",      1024)
fPdf    == File("f", "pdf",  "application/pdf", 1024)
fSvg    == File("g", "svg",  "image/svg+xml",   1024)
fSvgExt == File("h", "svg",  "",                1024)
fTxt    == File("n", "txt",  "text/plain",      1024)
fEmpty  == File("z", "png",  "image/png",       0)
fGif    == File("i", "gif",  "image/gif",       1024)

Pages == {"svg", "webp", "heic", "heicLazy", "pdf", "pdfLazy"}

\* the files a user offers to each page
Offered(p) ==
  CASE p = "svg"      -> {fSvg, fSvgExt, fPng}
    [] p = "webp"     -> {fWebp, fJpgMax, fJpgBig, fHeic, fGif}
    [] p = "heic"     -> {fHeic, fJpgMax, fJpgBig, fTxt}
    [] p = "heicLazy" -> {fHeic, fPng, fJpgBig, fTxt}
    [] p = "pdf"      -> {fPng, fPdf, fJpgBig, fTxt}
    [] p = "pdfLazy"  -> {fPdf, fPng, fEmpty}

\* the non-empty file lists of one drop or one file-input selection: a
\* FileList holds no file twice
Selections(p) ==
  UNION { { fs \in [1..n -> Offered(p)] :
              \A i, j \in 1..n : fs[i] = fs[j] => i = j } :
          n \in 1..MaxSel }

IsImageType(f) == f.type \in {"image/png", "image/jpeg", "image/webp",
                              "image/heic", "image/svg+xml"}
IsPdfType(f) == f.type = "application/pdf"

\* null for currentObjectUrl
NoUrl == 0

VARIABLES
  page,              \* the converter script of this page
  selectedFiles,     \* currentFile / selectedFile / selectedFiles, as a list
  fromFormat,        \* #from-format (webp, heic)
  toFormat,          \* #to-format
  mode,              \* #conversion-mode (pdf, pdfLazy)
  enabledTargets,    \* the options of #to-format that are not disabled (pdf)
  disabled,          \* convertBtn.disabled
  progressShown,     \* #progress-bar-wrapper is visible
  dlVisible,         \* #download-link is visible
  download,          \* #download-link's download attribute (webp, heicLazy)
  currentObjectUrl,  \* currentObjectUrl (webp, heic, pdf), NoUrl for null
  urlCount,          \* result object URLs created so far
  liveUrls,          \* result object URLs created and not revoked
  inflight,          \* conversions awaiting their adapter
  reading,           \* svg: files whose text() is pending
  currentSvgText,    \* svg: the file whose text is held, <<>> for ""
  tmpLive,           \* svg: unrevoked temporary URLs of svgToImage
  canEncodeWebP,     \* webp: the feature probe's result
  hasHeic2Any,       \* heic: window.heic2any was present at load
  cleared,           \* reset / change-file ran and no submission started since
  last,              \* the handler that ran last
  scripts,           \* the script element of each library source in the DOM
  calc               \* a function applied on its own: its inputs and result

vars == <<page, selectedFiles, fromFormat, toFormat, mode, enabledTargets,
          disabled,
          progressShown, dlVisible, download, currentObjectUrl, urlCount,
          liveUrls,
          inflight, reading, currentSvgText, tmpLive, canEncodeWebP,
          hasHeic2Any, cleared, last, scripts, calc>>

\* the part of the state a page's select controls hold
selects == <<fromFormat, toFormat, mode, enabledTargets>>
\* the result reference
urls == <<currentObjectUrl, urlCount, liveUrls, download>>
\* what only the SVG page uses
svgOnly == <<reading, currentSvgText, tmpLive>>
\* fixed at page load
env == <<page, canEncodeWebP, hasHeic2Any>>

\* last: the handler that ran, the kind of status text it set ("none" when
\* it set none), and for a file selection: whether every offered file
\* exceeded MAX_SIZE, whether the offer held both an image and a PDF of
\* 1..MAX_SIZE bytes, and whether no offered file was an image or a PDF
\* within MAX_SIZE
EvS(h, st) ==
  [handler |-> h, status |-> st, oversized |-> FALSE, mixed |-> FALSE,
   unusable |-> FALSE]
Ev(h) == EvS(h, "none")
EvSelect(files, st) ==
  [handler |-> "select",
   status |-> st,
   oversized |-> \A i \in 1..Len(files) : files[i].size > MAX_SIZE,
   mixed |-> /\ \E i \in 1..Len(files) :
                  IsImageType(files[i]) /\ files[i].size \in 1..MAX_SIZE
             /\ \E i \in 1..Len(files) :
                  IsPdfType(files[i]) /\ files[i].size \in 1..MAX_SIZE,
   unusable |-> \A i \in 1..Len(files) :
                  \/ files[i].size > MAX_SIZE
                  \/ ~(IsImageType(files[i]) \/ IsPdfType(files[i]))]

\* HEIC2ANY_SRC, JSPDF_SRC, PDF_JS_SRC
Srcs == {"heic2any", "jspdf", "pdfjs"}

\* no script element of a library is in the document and no library global
\* is defined.  els: the script elements with that src; state: "none",
\* "loading" (fetch pending), "loaded" (load fired, dataset.loaded is
\* "true") or "failed" (error fired); global: the library's global exists
NoScripts == [s \in Srcs |-> [els |-> 0, state |-> "none", global |-> FALSE]]

\* no function is applied on its own
NoCalc == [fn |-> "none"]

RemoveAt(s, i) == SubSeq(s, 1, i - 1) \o SubSeq(s, i + 1, Len(s))

\* a conversion that awaits its adapter: the files and the source format or
\* mode the handler passed
Conv(src, from) == [src |-> src, from |-> from]

\* the download attribute: the file whose name it was built from, and the
\* file whose content the blob behind the link was converted from
NoDownload == [name |-> "", content |-> ""]
Download(named, converted) ==
  [name |-> named.base, content |-> converted.base]

\* URL.createObjectURL for a result blob: the next unused id
NewUrl == urlCount + 1

\* room for one more conversion that may publish a result URL
CanStart == urlCount + Len(inflight) < MaxUrls

(***************************************************************************)
(* Shared UI helpers (app-common-ui.js, held in app-nav.js).               *)
(***************************************************************************)
\* setButtonLoading(convertBtn, isLoading)
setButtonLoading(isLoading) == disabled' = isLoading
\* toggleProgress(progressWrapper, show)
toggleProgress(show) == progressShown' = show

(***************************************************************************)
(* The 20 MB ceiling of the DOMContentLoaded converters.                   *)
(***************************************************************************)
TooLargeOff(f) == FALSE
TooLarge(f) == f.size > MAX_SIZE


(***************************************************************************)
(* converter-webp.js                                                       *)
(***************************************************************************)
WebpFromOptions == {"auto", "webp", "jpg", "png"}
WebpToOptions == {"webp", "jpg", "png"}

WebpAllowed(f) ==
  f.type \in {"image/webp", "image/png", "image/jpeg", "image/gif"}

\* mimeToFormat; "none" for null
WebpMimeToFormat(mime) ==
  CASE mime = "image/webp" -> "webp"
    [] mime = "image/jpeg" -> "jpg"
    [] mime = "image/png"  -> "png"
    [] mime = "image/gif"  -> "gif"
    [] OTHER               -> "none"

\* handleFileSelect(file), called by the drop and the change listeners
WebpHandleFileSelect(f) ==
  /\ page = "webp"
  /\ IF ~WebpAllowed(f) \/ TooLarge(f)
       THEN UNCHANGED <<selectedFiles, fromFormat, dlVisible>>
       ELSE /\ selectedFiles' = <<f>>
            /\ fromFormat' =
                 IF WebpMimeToFormat(f.type) # "none" /\ fromFormat = "auto"
                   THEN WebpMimeToFormat(f.type) ELSE fromFormat
            /\ dlVisible' = FALSE
  /\ last' = EvSelect(<<f>>,
                      IF ~WebpAllowed(f) \/ TooLarge(f) THEN "error"
                      ELSE IF f.type \in {"image/webp", "image/gif"}
                        THEN "warning"
                      ELSE "muted")
  /\ UNCHANGED <<toFormat, mode, enabledTargets, disabled, progressShown, urls, inflight,
                 svgOnly, env, scripts, calc, cleared>>

\* resetFileState()
WebpResetFileState ==
  /\ liveUrls' = liveUrls \ {currentObjectUrl}
  /\ currentObjectUrl' = NoUrl
  /\ selectedFiles' = <<>>
  /\ dlVisible' = FALSE
  /\ download' = NoDownload
  /\ UNCHANGED urlCount

\* the change-file button
WebpChangeFile ==
  /\ page = "webp"
  /\ WebpResetFileState
  /\ cleared' = TRUE
  /\ last' = EvS("changeFile", "muted")
  /\ UNCHANGED <<selects, disabled, progressShown, inflight, svgOnly, env, scripts, calc>>

\* the reset button
WebpReset ==
  /\ page = "webp"
  /\ WebpResetFileState
  /\ fromFormat' = "auto"
  /\ toFormat' = "webp"
  /\ cleared' = TRUE
  /\ last' = EvS("reset", "muted")
  /\ UNCHANGED <<mode, enabledTargets, disabled, progressShown, inflight, svgOnly, env, scripts, calc>>

\* the user picks options of #from-format and #to-format
WebpPickFormats(from, to) ==
  /\ page = "webp"
  /\ from \in WebpFromOptions /\ to \in WebpToOptions
  /\ fromFormat' = from /\ toFormat' = to
  /\ last' = Ev("ui")
  /\ UNCHANGED <<selectedFiles, mode, enabledTargets, disabled, progressShown, dlVisible,
                 urls, inflight, svgOnly, env, scripts, calc, cleared>>

\* the swap button
WebpSwap ==
  /\ page = "webp"
  /\ LET newFrom == toFormat
         detected == IF selectedFiles # <<>> /\ selectedFiles[1].type # ""
                       THEN WebpMimeToFormat(selectedFiles[1].type)
                       ELSE "none"
         newTo == IF fromFormat # "auto" THEN fromFormat
                  ELSE IF detected \in {"webp", "jpg", "png"} THEN detected
                  ELSE IF newFrom = "webp" THEN "jpg"
                  ELSE "webp"
     IN /\ fromFormat' = newFrom
        /\ toFormat' = newTo
  /\ last' = EvS("ui", "muted")
  /\ UNCHANGED <<selectedFiles, mode, enabledTargets, disabled, progressShown, dlVisible,
                 urls, inflight, svgOnly, env, scripts, calc, cleared>>

\* !currentFile, the first check of the submit handler
WebpNoFileOff == FALSE
WebpNoFile == selectedFiles = <<>>

\* toFormat === "webp" && !canEncodeWebP
WebpCannotEncodeOff == FALSE
WebpCannotEncode == toFormat = "webp" /\ ~canEncodeWebP

\* the submit handler, up to its await of convertImage
WebpSubmit ==
  /\ page = "webp"
  /\ ~disabled
  /\ IF WebpNoFile
       THEN UNCHANGED <<disabled, progressShown, inflight, cleared>>
     ELSE IF WebpCannotEncode
       THEN UNCHANGED <<disabled, progressShown, inflight, cleared>>
     ELSE /\ CanStart
          /\ setButtonLoading(TRUE)
          /\ toggleProgress(TRUE)
          /\ inflight' = Append(inflight, Conv(selectedFiles, fromFormat))
          /\ cleared' = FALSE
  /\ last' = EvS("submit", IF WebpNoFile THEN "none"
                           ELSE IF WebpCannotEncode THEN "error"
                           ELSE "muted")
  /\ UNCHANGED <<selectedFiles, selects, dlVisible, urls, svgOnly, env, scripts, calc>>

\* revoke the previous result URL, then create the new one
WebpPublishUrlNoRevoke ==
  /\ liveUrls' = liveUrls \cup {NewUrl}
  /\ currentObjectUrl' = NewUrl
  /\ urlCount' = NewUrl
WebpPublishUrl ==
  /\ liveUrls' = (liveUrls \ {currentObjectUrl}) \cup {NewUrl}
  /\ currentObjectUrl' = NewUrl
  /\ urlCount' = NewUrl

\* the finally block of the submit handler
WebpFinallyOnSuccess(o) ==
  IF o = "ok" THEN toggleProgress(FALSE) /\ setButtonLoading(FALSE)
  ELSE UNCHANGED <<progressShown, disabled>>
WebpFinally(o) ==
  /\ toggleProgress(FALSE)
  /\ setButtonLoading(FALSE)

\* the submit handler after convertImage settled: o is "ok" for a blob,
\* "err" for a rejection
WebpSettle(i, o) ==
  /\ page = "webp"
  /\ i \in 1..Len(inflight)
  /\ o \in {"ok", "err"}
  /\ inflight' = RemoveAt(inflight, i)
  /\ IF o = "ok"
       THEN /\ WebpPublishUrl
            /\ IF selectedFiles = <<>>
                 \* currentFile.name throws: the catch block runs
                 THEN /\ UNCHANGED <<dlVisible, download>>
                      /\ last' = EvS("failed", "error")
                 \* generateDownloadName(currentFile.name, ext)
                 ELSE /\ dlVisible' = TRUE
                      /\ download' = Download(selectedFiles[1],
                                               inflight[i].src[1])
                      /\ last' = EvS("done", "success")
       ELSE /\ UNCHANGED <<urls, dlVisible>>
            /\ last' = EvS("failed", "error")
  /\ WebpFinally(o)
  /\ UNCHANGED <<selectedFiles, selects, svgOnly, env, scripts, calc, cleared>>

(***************************************************************************)
(* converter-heic.js, DOMContentLoaded variant                             *)
(***************************************************************************)
HeicFromOptions == {"auto", "heic", "jpg", "png"}
HeicToOptions == {"jpg", "png", "heic"}

HeicAllowed(f) ==
  f.type \in {"image/heic", "image/heif", "image/jpeg", "image/png"}

\* mimeToFormat; "none" for null
HeicMimeToFormat(mime) ==
  CASE mime \in {"image/heic", "image/heif"} -> "heic"
    [] mime = "image/jpeg" -> "jpg"
    [] mime = "image/png"  -> "png"
    [] OTHER               -> "none"

\* handleFileSelect(file), called by the drop and the change listeners
HeicHandleFileSelect(f) ==
  /\ page = "heic"
  /\ IF ~HeicAllowed(f) \/ TooLarge(f)
       THEN UNCHANGED <<selectedFiles, fromFormat>>
       ELSE /\ selectedFiles' = <<f>>
            /\ fromFormat' =
                 IF HeicMimeToFormat(f.type) # "none" /\ fromFormat = "auto"
                   THEN HeicMimeToFormat(f.type) ELSE fromFormat
  /\ last' = EvSelect(<<f>>,
                      IF ~HeicAllowed(f) \/ TooLarge(f) THEN "error"
                      ELSE IF ~hasHeic2Any
                              /\ f.type \in {"image/heic", "image/heif"}
                        THEN "warning"
                      ELSE "muted")
  /\ UNCHANGED <<toFormat, mode, enabledTargets, disabled, progressShown, dlVisible, urls,
                 inflight, svgOnly, env, scripts, calc, cleared>>

\* resetFileState()
HeicResetFileState ==
  /\ liveUrls' = liveUrls \ {currentObjectUrl}
  /\ currentObjectUrl' = NoUrl
  /\ selectedFiles' = <<>>
  /\ dlVisible' = FALSE
  /\ UNCHANGED <<urlCount, download>>

\* the change-file button
HeicChangeFile ==
  /\ page = "heic"
  /\ HeicResetFileState
  /\ cleared' = TRUE
  /\ last' = EvS("changeFile", "muted")
  /\ UNCHANGED <<selects, disabled, progressShown, inflight, svgOnly, env, scripts, calc>>

\* the reset button
HeicReset ==
  /\ page = "heic"
  /\ HeicResetFileState
  /\ fromFormat' = "auto"
  /\ toFormat' = "jpg"
  /\ cleared' = TRUE
  /\ last' = EvS("reset", "muted")
  /\ UNCHANGED <<mode, enabledTargets, disabled, progressShown, inflight, svgOnly, env, scripts, calc>>

\* the user picks options of #from-format and #to-format
HeicPickFormats(from, to) ==
  /\ page = "heic"
  /\ from \in HeicFromOptions /\ to \in HeicToOptions
  /\ fromFormat' = from /\ toFormat' = to
  /\ last' = Ev("ui")
  /\ UNCHANGED <<selectedFiles, mode, enabledTargets, disabled, progressShown, dlVisible,
                 urls, inflight, svgOnly, env, scripts, calc, cleared>>

\* the submit handler, up to its await of convertHeicOrImage
HeicSubmit ==
  /\ page = "heic"
  /\ ~disabled
  /\ IF selectedFiles = <<>>
       THEN UNCHANGED <<disabled, progressShown, inflight, cleared>>
     ELSE IF fromFormat \in {"jpg", "png"} /\ toFormat = "heic"
       THEN UNCHANGED <<disabled, progressShown, inflight, cleared>>
     ELSE /\ CanStart
          /\ setButtonLoading(TRUE)
          /\ toggleProgress(TRUE)
          /\ inflight' = Append(inflight, Conv(selectedFiles, fromFormat))
          /\ cleared' = FALSE
  /\ last' = EvS("submit", IF selectedFiles = <<>> THEN "none"
                           ELSE IF fromFormat \in {"jpg", "png"}
                                   /\ toFormat = "heic" THEN "warning"
                           ELSE "muted")
  /\ UNCHANGED <<selectedFiles, selects, dlVisible, urls, svgOnly, env, scripts, calc>>

\* convertHeicOrImage(file, fromFormat, toFormat, quality): how it may settle
HeicOutcomes(c) ==
  LET detected == HeicMimeToFormat(c.src[1].type)
      effectiveFrom == IF c.from = "auto" THEN detected ELSE c.from
  IN IF effectiveFrom = "none" THEN {"err"}
     ELSE IF effectiveFrom = "heic" /\ ~hasHeic2Any THEN {"err"}
     ELSE {"ok", "err"}

\* revoke the previous result URL, then create the new one
HeicPublishUrl ==
  /\ liveUrls' = (liveUrls \ {currentObjectUrl}) \cup {NewUrl}
  /\ currentObjectUrl' = NewUrl
  /\ urlCount' = NewUrl
  /\ UNCHANGED download

\* the finally block of the submit handler
HeicFinally ==
  /\ toggleProgress(FALSE)
  /\ setButtonLoading(FALSE)

\* the submit handler after convertHeicOrImage settled
HeicSettle(i, o) ==
  /\ page = "heic"
  /\ i \in 1..Len(inflight)
  /\ o \in HeicOutcomes(inflight[i])
  /\ inflight' = RemoveAt(inflight, i)
  /\ IF o = "ok"
       THEN /\ HeicPublishUrl
            /\ IF selectedFiles = <<>>
                 \* currentFile.name throws: the catch block runs
                 THEN /\ UNCHANGED dlVisible
                      /\ last' = EvS("failed", "error")
                 ELSE /\ dlVisible' = TRUE
                      /\ last' = EvS("done", "success")
       ELSE /\ UNCHANGED <<urls, dlVisible>>
            /\ last' = EvS("failed", "error")
  /\ HeicFinally
  /\ UNCHANGED <<selectedFiles, selects, svgOnly, env, scripts, calc, cleared>>

(***************************************************************************)
(* The lazy loader of the lazy-loading variants.                           *)
(***************************************************************************)
\* loadScriptOnce(src): the script elements after the call.  An element with
\* that src already in the document is reused, whatever its state.
loadScriptOnceNoLookup(src) ==
  [scripts EXCEPT ![src] = [els |-> @.els + 1, state |-> "loading",
                            global |-> @.global]]
loadScriptOnce(src) ==
  IF scripts[src].els > 0 THEN scripts
  ELSE [scripts EXCEPT ![src] = [els |-> 1, state |-> "loading",
                                 global |-> @.global]]

\* the promise loadScriptOnce(src) returns: resolved at once for an element
\* whose dataset.loaded is "true", else pending on the element's load and
\* error events
loadPromise(src) ==
  IF scripts[src].els > 0 /\ scripts[src].state = "loaded"
    THEN "resolved" ELSE "pending"

\* ensureHeic2any / ensureJsPdf / ensurePdfJs, up to their await: "ready"
\* when the global exists, "absent" when the script is loaded without it
\* (they throw), "wait" when they await the script's events
ensureLib(src) ==
  IF scripts[src].global THEN "ready"
  ELSE IF loadPromise(src) = "resolved" THEN "absent"
  ELSE "wait"

\* the load or error event of the script element of src; defines tells
\* whether the loaded script defined the library's global
scriptEvent(src, o, defines) ==
  [scripts EXCEPT ![src] = [els |-> @.els,
                            state |-> IF o = "ok" THEN "loaded" ELSE "failed",
                            global |-> o = "ok" /\ defines]]

\* a conversion that awaits the script of src
AwaitsScript(c, src) == c.stage = "script" /\ c.lib = src

\* a conversion of a lazy-loading variant: its stage is "script" while it
\* awaits loadScriptOnce(lib), then "run" while it awaits the adapter
LazyConv(src, from, stage, lib) ==
  [src |-> src, from |-> from, stage |-> stage, lib |-> lib]

(***************************************************************************)
(* converter-heic.js, lazy-loading variant                                 *)
(***************************************************************************)
HeicLazyToOptions == {"jpg", "png"}

\* toggleLoading(isLoading)
HeicLazyToggleLoading(isLoading) ==
  /\ disabled' = isLoading
  /\ progressShown' = isLoading

\* handleFile(file) for a file, called by the drop and the change listeners
HeicLazyHandleFile(f) ==
  /\ page = "heicLazy"
  /\ selectedFiles' = <<f>>
  /\ dlVisible' = FALSE
  /\ last' = EvSelect(<<f>>, "info")
  /\ UNCHANGED <<selects, disabled, progressShown, urls, inflight, svgOnly,
                 env, scripts, calc, cleared>>

\* the change-file button: handleFile(null)
HeicLazyChangeFile ==
  /\ page = "heicLazy"
  /\ selectedFiles' = <<>>
  /\ dlVisible' = FALSE
  /\ last' = EvS("changeFile", "info")
  /\ UNCHANGED <<selects, disabled, progressShown, urls, inflight, svgOnly,
                 env, scripts, calc, cleared>>

\* the reset button: handleFile(null), and the progress bar is hidden
HeicLazyReset ==
  /\ page = "heicLazy"
  /\ selectedFiles' = <<>>
  /\ dlVisible' = FALSE
  /\ progressShown' = FALSE
  /\ last' = EvS("reset", "info")
  /\ UNCHANGED <<selects, disabled, urls, inflight, svgOnly, env, scripts, calc, cleared>>

\* the user picks an option of #to-format
HeicLazyPickTarget(to) ==
  /\ page = "heicLazy"
  /\ to \in HeicLazyToOptions
  /\ toFormat' = to
  /\ last' = Ev("ui")
  /\ UNCHANGED <<selectedFiles, fromFormat, mode, enabledTargets, disabled, progressShown,
                 dlVisible, urls, inflight, svgOnly, env, scripts, calc, cleared>>

\* isHeicFile(file)
isHeicFile(f) ==
  f.type \in {"image/heic", "image/heif"} \/ f.ext \in {"heic", "heif"}

\* the submit handler and runConversion, up to their first await that
\* another task ends: of the script's events, or of the adapter.  When
\* the script is loaded and heic2any is still undefined, ensureHeic2any
\* throws and the catch and finally blocks run in the same task.
HeicLazySubmit ==
  /\ page = "heicLazy"
  /\ ~disabled
  /\ IF selectedFiles = <<>>
       THEN /\ last' = EvS("submit", "info")
            /\ UNCHANGED <<disabled, progressShown, inflight, dlVisible,
                           scripts>>
     ELSE IF ~isHeicFile(selectedFiles[1])
       THEN /\ CanStart
            /\ HeicLazyToggleLoading(TRUE)
            /\ inflight' = Append(inflight,
                 LazyConv(selectedFiles, "auto", "run", "none"))
            /\ last' = EvS("submit", "info")
            /\ UNCHANGED <<dlVisible, scripts>>
     ELSE IF ensureLib("heic2any") = "absent"
       THEN /\ HeicLazyToggleLoading(FALSE)
            /\ dlVisible' = FALSE
            /\ last' = EvS("failed", "error")
            /\ UNCHANGED <<inflight, scripts>>
     ELSE /\ CanStart
          /\ HeicLazyToggleLoading(TRUE)
          /\ IF ensureLib("heic2any") = "ready"
               THEN /\ inflight' = Append(inflight,
                         LazyConv(selectedFiles, "auto", "run", "heic2any"))
                    /\ UNCHANGED scripts
               ELSE /\ inflight' = Append(inflight,
                         LazyConv(selectedFiles, "auto", "script", "heic2any"))
                    /\ scripts' = loadScriptOnce("heic2any")
          /\ last' = EvS("submit", "info")
          /\ UNCHANGED dlVisible
  /\ UNCHANGED <<selectedFiles, selects, urls, svgOnly, env, calc, cleared>>

\* the load or error event of the heic2any script, and the continuations of
\* the conversions that await it: on load with heic2any defined they call
\* it; else they throw and the handler's catch and finally blocks run
HeicLazyScriptEvent(o, defines) ==
  /\ page = "heicLazy"
  /\ scripts["heic2any"].state = "loading"
  /\ scripts' = scriptEvent("heic2any", o, defines)
  /\ LET waits(c) == AwaitsScript(c, "heic2any")
         others(c) == ~AwaitsScript(c, "heic2any")
     IN IF SelectSeq(inflight, waits) = <<>>
          THEN /\ last' = Ev("script")
               /\ UNCHANGED <<inflight, disabled, progressShown, dlVisible>>
        ELSE IF o = "ok" /\ defines
          THEN /\ inflight' = [k \in 1..Len(inflight) |->
                                 IF waits(inflight[k])
                                   THEN [inflight[k] EXCEPT !.stage = "run"]
                                   ELSE inflight[k]]
               /\ last' = Ev("script")
               /\ UNCHANGED <<disabled, progressShown, dlVisible>>
        ELSE /\ inflight' = SelectSeq(inflight, others)
             /\ HeicLazyToggleLoading(FALSE)
             /\ dlVisible' = FALSE
             /\ last' = EvS("failed", "error")
  /\ UNCHANGED <<selectedFiles, selects, urls, svgOnly, env, calc, cleared>>

\* runConversion after its adapter settled, and the handler's catch / finally
HeicLazySettle(i, o) ==
  /\ page = "heicLazy"
  /\ i \in 1..Len(inflight)
  /\ inflight[i].stage = "run"
  /\ o \in {"ok", "err"}
  /\ inflight' = RemoveAt(inflight, i)
  /\ IF o = "ok" /\ selectedFiles # <<>>
       THEN /\ liveUrls' = liveUrls \cup {NewUrl}
            /\ urlCount' = NewUrl
            \* getBaseName(selectedFile.name)
            /\ download' = Download(selectedFiles[1], inflight[i].src[1])
            /\ dlVisible' = TRUE
            /\ last' = EvS("done", "info")
       \* a rejection, or selectedFile.name throws: the catch block runs
       ELSE /\ UNCHANGED <<urlCount, liveUrls, download>>
            /\ dlVisible' = FALSE
            /\ last' = EvS("failed", "error")
  /\ HeicLazyToggleLoading(FALSE)
  /\ UNCHANGED <<selectedFiles, selects, currentObjectUrl, svgOnly, env, scripts, calc, cleared>>

(***************************************************************************)
(* converter-image-pdf.js, lazy-loading variant                            *)
(***************************************************************************)
PdfLazyModes == {"auto", "image-to-pdf", "pdf-to-image"}
PdfLazyToOptions == {"pdf", "jpg", "png"}

\* toggleLoading(isLoading)
PdfLazyToggleLoading(isLoading) ==
  /\ disabled' = isLoading
  /\ progressShown' = isLoading

NonEmptyFile(f) == f.size > 0
\* f.type.startsWith("image/")
StartsWithImage(f) == IsImageType(f)
\* f.type === "application/pdf" || f.name.toLowerCase().endsWith(".pdf")
LooksLikePdf(f) == f.type = "application/pdf" \/ f.ext = "pdf"

\* handleFiles(files), called by the drop and the change listeners
PdfLazyHandleFiles(files) ==
  /\ page = "pdfLazy"
  /\ selectedFiles' = SelectSeq(files, NonEmptyFile)
  /\ dlVisible' = FALSE
  /\ last' = EvSelect(files, "info")
  /\ UNCHANGED <<selects, disabled, progressShown, urls, inflight, svgOnly,
                 env, scripts, calc, cleared>>

\* the change-file button
PdfLazyChangeFile ==
  /\ page = "pdfLazy"
  /\ selectedFiles' = <<>>
  /\ dlVisible' = FALSE
  /\ last' = EvS("changeFile", "info")
  /\ UNCHANGED <<selects, disabled, progressShown, urls, inflight, svgOnly,
                 env, scripts, calc, cleared>>

\* the reset button
PdfLazyReset ==
  /\ page = "pdfLazy"
  /\ selectedFiles' = <<>>
  /\ dlVisible' = FALSE
  /\ progressShown' = FALSE
  /\ last' = EvS("reset", "info")
  /\ UNCHANGED <<selects, disabled, urls, inflight, svgOnly, env, scripts, calc, cleared>>

\* the user picks options of #conversion-mode and #to-format
PdfLazyPick(m, to) ==
  /\ page = "pdfLazy"
  /\ m \in PdfLazyModes /\ to \in PdfLazyToOptions
  /\ mode' = m /\ toFormat' = to
  /\ UNCHANGED enabledTargets
  /\ last' = Ev("ui")
  /\ UNCHANGED <<selectedFiles, fromFormat, disabled, progressShown,
                 dlVisible, urls, inflight, svgOnly, env, scripts, calc, cleared>>

\* the swap-mode button
PdfLazySwap ==
  /\ page = "pdfLazy"
  /\ IF mode = "image-to-pdf" /\ toFormat = "pdf"
       THEN mode' = "pdf-to-image" /\ toFormat' = "jpg"
       ELSE mode' = "image-to-pdf" /\ toFormat' = "pdf"
  /\ UNCHANGED enabledTargets
  /\ last' = Ev("ui")
  /\ UNCHANGED <<selectedFiles, fromFormat, disabled, progressShown,
                 dlVisible, urls, inflight, svgOnly, env, scripts, calc, cleared>>

\* detectMode(files)
detectMode(files) ==
  IF \E i \in 1..Len(files) : LooksLikePdf(files[i])
    THEN "pdf-to-image" ELSE "image-to-pdf"

\* the library convertImagesToPdf(files) / convertPdfToImages(files) ask
\* for in mode m: none when they throw before, for want of an input file
PdfLazyLib(files, m) ==
  IF m = "image-to-pdf"
    THEN IF SelectSeq(files, StartsWithImage) = <<>> THEN "none" ELSE "jspdf"
    ELSE IF SelectSeq(files, LooksLikePdf) = <<>> THEN "none" ELSE "pdfjs"

\* the submit handler and its adapter, up to their first await that another
\* task ends: of the script's events, or of the file reads.  When the
\* script is loaded and the global is still undefined, ensureJsPdf /
\* ensurePdfJs throw and the catch and finally blocks run in the same task.
PdfLazySubmit ==
  /\ page = "pdfLazy"
  /\ ~disabled
  /\ LET m == IF mode = "auto" THEN detectMode(selectedFiles) ELSE mode
         lib == PdfLazyLib(selectedFiles, m)
     IN IF selectedFiles = <<>>
          THEN /\ last' = EvS("submit", "info")
               /\ UNCHANGED <<disabled, progressShown, inflight, dlVisible,
                              scripts>>
        ELSE IF lib = "none"
          THEN /\ CanStart
               /\ PdfLazyToggleLoading(TRUE)
               /\ inflight' = Append(inflight,
                    LazyConv(selectedFiles, m, "run", "none"))
               /\ last' = EvS("submit", "info")
               /\ UNCHANGED <<dlVisible, scripts>>
        ELSE IF ensureLib(lib) = "absent"
          THEN /\ PdfLazyToggleLoading(FALSE)
               /\ dlVisible' = FALSE
               /\ last' = EvS("failed", "error")
               /\ UNCHANGED <<inflight, scripts>>
        ELSE /\ CanStart
             /\ PdfLazyToggleLoading(TRUE)
             /\ IF ensureLib(lib) = "ready"
                  THEN /\ inflight' = Append(inflight,
                            LazyConv(selectedFiles, m, "run", lib))
                       /\ UNCHANGED scripts
                  ELSE /\ inflight' = Append(inflight,
                            LazyConv(selectedFiles, m, "script", lib))
                       /\ scripts' = loadScriptOnce(lib)
             /\ last' = EvS("submit", "info")
             /\ UNCHANGED dlVisible
  /\ UNCHANGED <<selectedFiles, selects, urls, svgOnly, env, calc, cleared>>

\* the load or error event of the jsPDF or pdf.js script, and the
\* continuations of the conversions that await it
PdfLazyScriptEvent(src, o, defines) ==
  /\ page = "pdfLazy"
  /\ src \in {"jspdf", "pdfjs"}
  /\ scripts[src].state = "loading"
  /\ scripts' = scriptEvent(src, o, defines)
  /\ LET waits(c) == AwaitsScript(c, src)
         others(c) == ~AwaitsScript(c, src)
     IN IF SelectSeq(inflight, waits) = <<>>
          THEN /\ last' = Ev("script")
               /\ UNCHANGED <<inflight, disabled, progressShown, dlVisible>>
        ELSE IF o = "ok" /\ defines
          THEN /\ inflight' = [k \in 1..Len(inflight) |->
                                 IF waits(inflight[k])
                                   THEN [inflight[k] EXCEPT !.stage = "run"]
                                   ELSE inflight[k]]
               /\ last' = Ev("script")
               /\ UNCHANGED <<disabled, progressShown, dlVisible>>
        ELSE /\ inflight' = SelectSeq(inflight, others)
             /\ PdfLazyToggleLoading(FALSE)
             /\ dlVisible' = FALSE
             /\ last' = EvS("failed", "error")
  /\ UNCHANGED <<selectedFiles, selects, urls, svgOnly, env, calc, cleared>>

\* convertImagesToPdf(files) / convertPdfToImages(files): how they may settle
PdfLazyOutcomes(c) ==
  IF c.from = "image-to-pdf"
    THEN IF SelectSeq(c.src, StartsWithImage) = <<>> THEN {"err"}
         ELSE {"ok", "err"}
    ELSE IF SelectSeq(c.src, LooksLikePdf) = <<>> THEN {"err"}
         ELSE {"ok", "err"}

\* the adapter's end and the handler's catch / finally.  convertPdfToImages
\* revokes each page's URL in the run that creates it.
PdfLazySettle(i, o) ==
  /\ page = "pdfLazy"
  /\ i \in 1..Len(inflight)
  /\ inflight[i].stage = "run"
  /\ o \in PdfLazyOutcomes(inflight[i])
  /\ inflight' = RemoveAt(inflight, i)
  /\ IF o = "ok" /\ inflight[i].from = "image-to-pdf"
       THEN /\ liveUrls' = liveUrls \cup {NewUrl}
            /\ urlCount' = NewUrl
            /\ UNCHANGED download
            /\ dlVisible' = TRUE
            /\ last' = EvS("done", "info")
       ELSE /\ UNCHANGED <<urlCount, liveUrls, download>>
            /\ dlVisible' = FALSE
            /\ last' = IF o = "ok" THEN EvS("done", "info")
                        ELSE EvS("failed", "error")
  /\ PdfLazyToggleLoading(FALSE)
  /\ UNCHANGED <<selectedFiles, selects, currentObjectUrl, svgOnly, env, scripts, calc, cleared>>

(***************************************************************************)
(* converter-image-pdf.js, DOMContentLoaded variant                        *)
(***************************************************************************)
PdfModes == {"Detect_automatically", "PDF-to-JPG/PNG", "JPG/JPEG_to-PDF",
             "PNG-to-PDF"}

isPdfToImagesMode(val) == val = "PDF-to-JPG/PNG"

\* updateModeUI(): the value #to-format has after it ran in mode m
updateModeUIOff(m, to) == to
updateModeUI(m, to) ==
  IF isPdfToImagesMode(m) THEN (IF to = "pdf" THEN "jpg" ELSE to)
  ELSE "pdf"

\* updateModeUI(): the options of #to-format it leaves enabled in mode m
PdfEnabledTargets(m) ==
  IF isPdfToImagesMode(m) THEN {"jpg", "png"} ELSE {"pdf"}

\* the user picks an option of #conversion-mode: its change listener runs
PdfPickMode(m) ==
  /\ page = "pdf"
  /\ m \in PdfModes
  /\ mode' = m
  /\ toFormat' = updateModeUI(m, toFormat)
  /\ enabledTargets' = PdfEnabledTargets(m)
  /\ last' = EvS("ui", "muted")
  /\ UNCHANGED <<selectedFiles, fromFormat, disabled, progressShown,
                 dlVisible, urls, inflight, svgOnly, env, scripts, calc, cleared>>

\* the user picks an enabled option of #to-format
PdfPickTarget(to) ==
  /\ page = "pdf"
  /\ to \in enabledTargets
  /\ toFormat' = to
  /\ last' = Ev("ui")
  /\ UNCHANGED <<selectedFiles, fromFormat, mode, enabledTargets, disabled, progressShown,
                 dlVisible, urls, inflight, svgOnly, env, scripts, calc, cleared>>

\* the swap-mode button
PdfSwap ==
  /\ page = "pdf"
  /\ LET m == IF isPdfToImagesMode(mode) THEN "JPG/JPEG_to-PDF"
              ELSE "PDF-to-JPG/PNG"
     IN /\ mode' = m
        /\ toFormat' = updateModeUI(m, toFormat)
        /\ enabledTargets' = PdfEnabledTargets(m)
  /\ last' = EvS("ui", "muted")
  /\ UNCHANGED <<selectedFiles, fromFormat, disabled, progressShown,
                 dlVisible, urls, inflight, svgOnly, env, scripts, calc, cleared>>

\* the files of a selection that pass the size check and are PDFs / images
PdfAcceptedPdf(f) == ~TooLarge(f) /\ f.type = "application/pdf"
PdfAcceptedImage(f) ==
  ~TooLarge(f) /\ f.type # "application/pdf" /\ IsImageType(f)

\* the selections handleFileSelection returns from with an error status
PdfSelectionRejected(files) ==
  LET images == SelectSeq(files, PdfAcceptedImage)
      pdfs == SelectSeq(files, PdfAcceptedPdf)
  IN \/ images = <<>> /\ pdfs = <<>>
     \/ mode = "Detect_automatically" /\ images # <<>> /\ pdfs # <<>>
     \/ mode # "Detect_automatically" /\ isPdfToImagesMode(mode) /\ pdfs = <<>>
     \/ mode # "Detect_automatically" /\ ~isPdfToImagesMode(mode)
          /\ images = <<>>

\* handleFileSelection(files), called by the drop and the change listeners
PdfHandleFileSelection(files) ==
  /\ page = "pdf"
  /\ LET images == SelectSeq(files, PdfAcceptedImage)
         pdfs == SelectSeq(files, PdfAcceptedPdf)
         keep == UNCHANGED <<selectedFiles, mode, enabledTargets, toFormat, dlVisible>>
     IN IF images = <<>> /\ pdfs = <<>> THEN keep
        ELSE IF mode = "Detect_automatically" THEN
          IF pdfs # <<>> /\ images = <<>> THEN
            /\ mode' = "PDF-to-JPG/PNG"
            /\ toFormat' = updateModeUI("PDF-to-JPG/PNG", toFormat)
            /\ enabledTargets' = PdfEnabledTargets("PDF-to-JPG/PNG")
            /\ selectedFiles' = <<pdfs[1]>>
            /\ dlVisible' = FALSE
          ELSE IF images # <<>> /\ pdfs = <<>> THEN
            LET m == IF images[1].type = "image/png" THEN "PNG-to-PDF"
                     ELSE "JPG/JPEG_to-PDF"
            IN /\ mode' = m
               /\ toFormat' = updateModeUI(m, toFormat)
               /\ enabledTargets' = PdfEnabledTargets(m)
               /\ selectedFiles' = images
               /\ dlVisible' = FALSE
          ELSE keep
        ELSE IF isPdfToImagesMode(mode) THEN
          IF pdfs = <<>> THEN keep
          ELSE /\ selectedFiles' = <<pdfs[1]>>
               /\ dlVisible' = FALSE
               /\ UNCHANGED <<mode, enabledTargets, toFormat>>
        ELSE
          IF images = <<>> THEN keep
          ELSE /\ selectedFiles' = images
               /\ dlVisible' = FALSE
               /\ UNCHANGED <<mode, enabledTargets, toFormat>>
  /\ last' = EvSelect(files, IF PdfSelectionRejected(files)
                               THEN "error" ELSE "muted")
  /\ UNCHANGED <<fromFormat, disabled, progressShown, urls, inflight,
                 svgOnly, env, scripts, calc, cleared>>

\* resetFiles()
resetFiles ==
  /\ liveUrls' = liveUrls \ {currentObjectUrl}
  /\ currentObjectUrl' = NoUrl
  /\ selectedFiles' = <<>>
  /\ dlVisible' = FALSE
  /\ UNCHANGED <<urlCount, download>>

\* the change-file button
PdfChangeFile ==
  /\ page = "pdf"
  /\ resetFiles
  /\ cleared' = TRUE
  /\ last' = EvS("changeFile", "muted")
  /\ UNCHANGED <<selects, disabled, progressShown, inflight, svgOnly, env, scripts, calc>>

\* the reset button
PdfReset ==
  /\ page = "pdf"
  /\ resetFiles
  /\ mode' = "Detect_automatically"
  /\ toFormat' = updateModeUI("Detect_automatically", "pdf")
  /\ enabledTargets' = PdfEnabledTargets("Detect_automatically")
  /\ cleared' = TRUE
  /\ last' = EvS("reset", "muted")
  /\ UNCHANGED <<fromFormat, disabled, progressShown, inflight, svgOnly, env, scripts, calc>>

\* the submit handler, up to the await of the adapter.  In PDF-to-images
\* mode with target pdf it returns from inside try: finally runs at once.
PdfSubmit ==
  /\ page = "pdf"
  /\ ~disabled
  /\ IF selectedFiles = <<>>
       THEN UNCHANGED <<disabled, progressShown, inflight, cleared>>
     ELSE IF isPdfToImagesMode(mode) /\ toFormat = "pdf"
       THEN /\ toggleProgress(FALSE)
            /\ setButtonLoading(FALSE)
            /\ UNCHANGED <<inflight, cleared>>
     ELSE /\ CanStart
          /\ setButtonLoading(TRUE)
          /\ toggleProgress(TRUE)
          /\ inflight' = Append(inflight,
               Conv(IF isPdfToImagesMode(mode) THEN <<selectedFiles[1]>>
                    ELSE selectedFiles,
                    mode))
          /\ cleared' = FALSE
  /\ last' = EvS("submit",
                 IF selectedFiles = <<>> THEN "none"
                 ELSE IF isPdfToImagesMode(mode)
                   THEN (IF toFormat = "pdf" THEN "warning" ELSE "muted")
                   ELSE (IF toFormat # "pdf" THEN "warning" ELSE "muted"))
  /\ UNCHANGED <<selectedFiles, selects, dlVisible, urls, svgOnly, env, scripts, calc>>

\* convertImagesToPdf(files, quality) / convertPdfToImage(file, ...): how
\* they may settle.  An image decode of a PDF and a PDF load of an image fail.
PdfOutcomes(c) ==
  IF isPdfToImagesMode(c.from)
    THEN IF IsPdfType(c.src[1]) THEN {"ok", "err"} ELSE {"err"}
    ELSE IF \A k \in 1..Len(c.src) : IsImageType(c.src[k]) THEN {"ok", "err"}
         ELSE {"err"}

\* applyDownloadBlob(blob, fallbackName)
applyDownloadBlobNoRevoke ==
  /\ liveUrls' = liveUrls \cup {NewUrl}
  /\ currentObjectUrl' = NewUrl
  /\ urlCount' = NewUrl
  /\ UNCHANGED download
  /\ dlVisible' = TRUE
applyDownloadBlob ==
  /\ liveUrls' = (liveUrls \ {currentObjectUrl}) \cup {NewUrl}
  /\ currentObjectUrl' = NewUrl
  /\ urlCount' = NewUrl
  /\ UNCHANGED download
  /\ dlVisible' = TRUE

\* the submit handler after its adapter settled
PdfSettle(i, o) ==
  /\ page = "pdf"
  /\ i \in 1..Len(inflight)
  /\ o \in PdfOutcomes(inflight[i])
  /\ inflight' = RemoveAt(inflight, i)
  /\ IF o = "ok"
       THEN /\ applyDownloadBlob
            /\ last' = EvS("done", "success")
       ELSE /\ UNCHANGED <<urls, dlVisible>>
            /\ last' = EvS("failed", "error")
  /\ toggleProgress(FALSE)
  /\ setButtonLoading(FALSE)
  /\ UNCHANGED <<selectedFiles, selects, svgOnly, env, scripts, calc, cleared>>

(***************************************************************************)
(* converter-svg.js                                                        *)
(***************************************************************************)
\* setWorking(isWorking): the convert and reset buttons, the file input and
\* #to-format are disabled together; spinner and progress follow
setWorkingStuck(isWorking) ==
  /\ disabled' = (disabled \/ isWorking)
  /\ progressShown' = (progressShown \/ isWorking)
setWorking(isWorking) ==
  /\ disabled' = isWorking
  /\ progressShown' = isWorking

\* file.type === "image/svg+xml" || /\.svg$/i.test(file.name)
isSvg(f) == f.type = "image/svg+xml" \/ f.ext = "svg"

\* handleFile(file), up to its await of file.text()
handleFile(f) ==
  /\ Len(reading) < MaxReads
  /\ IF ~isSvg(f)
       THEN UNCHANGED <<selectedFiles, currentSvgText, dlVisible, disabled,
                        progressShown, reading>>
       ELSE /\ selectedFiles' = <<f>>
            /\ currentSvgText' = <<>>
            /\ dlVisible' = FALSE
            /\ setWorking(TRUE)
            /\ reading' = Append(reading, f)
  /\ last' = EvSelect(<<f>>, "info")
  /\ UNCHANGED <<selects, urls, inflight, tmpLive, env, scripts, calc, cleared>>

\* a drop on the upload area
SvgDrop(f) ==
  /\ page = "svg"
  /\ handleFile(f)

\* a change of the file input, which setWorking disables
SvgChange(f) ==
  /\ page = "svg"
  /\ ~disabled
  /\ handleFile(f)

\* handleFile after file.text() settled
SvgReadSettle(i, o) ==
  /\ page = "svg"
  /\ i \in 1..Len(reading)
  /\ o \in {"ok", "err"}
  /\ reading' = RemoveAt(reading, i)
  /\ currentSvgText' = IF o = "ok" THEN <<reading[i]>> ELSE currentSvgText
  /\ setWorking(FALSE)
  /\ last' = EvS("read", IF o = "ok" THEN "info" ELSE "error")
  /\ UNCHANGED <<selectedFiles, selects, dlVisible, urls, inflight, tmpLive,
                 env, scripts, calc, cleared>>

\* resetAll(), the reset button's listener; setWorking disables the button
resetAll ==
  /\ page = "svg"
  /\ ~disabled
  /\ selectedFiles' = <<>>
  /\ currentSvgText' = <<>>
  /\ dlVisible' = FALSE
  /\ toFormat' = "png"
  /\ last' = EvS("reset", "info")
  /\ UNCHANGED <<fromFormat, mode, enabledTargets, disabled, progressShown, urls, inflight,
                 reading, tmpLive, env, scripts, calc, cleared>>

\* renderAndExport(), up to its await of svgToImage, which has created its
\* temporary URL
renderAndExport ==
  /\ page = "svg"
  /\ ~disabled
  /\ IF selectedFiles = <<>> \/ currentSvgText = <<>>
       THEN UNCHANGED <<dlVisible, disabled, progressShown, inflight, tmpLive>>
       ELSE /\ CanStart
            /\ tmpLive < MaxUrls
            /\ dlVisible' = FALSE
            /\ setWorking(TRUE)
            /\ tmpLive' = tmpLive + 1
            /\ inflight' = Append(inflight,
                 [src |-> currentSvgText, from |-> "svg", stage |-> "image"])
  /\ last' = EvS("submit", "info")
  /\ UNCHANGED <<selectedFiles, selects, urls, reading, currentSvgText, env, scripts, calc,
                 cleared>>

\* svgToImage settled: on load it revokes its URL and renderAndExport goes
\* on to canvas.toBlob; on error the catch and finally blocks run
SvgImageSettle(i, o) ==
  /\ page = "svg"
  /\ i \in 1..Len(inflight)
  /\ inflight[i].stage = "image"
  /\ o \in {"ok", "err"}
  /\ IF o = "ok"
       THEN /\ tmpLive' = tmpLive - 1
            /\ inflight' = [inflight EXCEPT ![i].stage = "blob"]
            /\ last' = EvS("image", "info")
            /\ UNCHANGED <<disabled, progressShown>>
       ELSE /\ inflight' = RemoveAt(inflight, i)
            /\ last' = EvS("failed", "error")
            /\ setWorking(FALSE)
            /\ UNCHANGED tmpLive
  /\ UNCHANGED <<selectedFiles, selects, dlVisible, urls, reading,
                 currentSvgText, env, scripts, calc, cleared>>

\* showDownload(blob, filename)
showDownload ==
  /\ liveUrls' = liveUrls \cup {NewUrl}
  /\ urlCount' = NewUrl
  /\ UNCHANGED download
  /\ dlVisible' = TRUE

\* canvas.toBlob called back: o is "ok" for a blob, "err" for null
SvgBlobSettle(i, o) ==
  /\ page = "svg"
  /\ i \in 1..Len(inflight)
  /\ inflight[i].stage = "blob"
  /\ o \in {"ok", "err"}
  /\ inflight' = RemoveAt(inflight, i)
  /\ IF o = "ok" /\ selectedFiles # <<>>
       THEN /\ showDownload
            /\ last' = EvS("done", "info")
       \* a null blob, or currentFile.name throws: the catch block runs
       ELSE /\ UNCHANGED <<urlCount, liveUrls, dlVisible, download>>
            /\ last' = EvS("failed", "error")
  /\ setWorking(FALSE)
  /\ UNCHANGED <<selectedFiles, selects, currentObjectUrl, reading,
                 currentSvgText, tmpLive, env, scripts, calc, cleared>>

(***************************************************************************)
(* The page after its script ran, and its events.                          *)
(***************************************************************************)
Init ==
  /\ page \in Pages
  /\ selectedFiles = <<>>
  /\ fromFormat = "auto"
  /\ toFormat = CASE page = "webp" -> "webp"
                  [] page \in {"heic", "heicLazy"} -> "jpg"
                  [] page = "svg" -> "png"
                  [] OTHER -> "pdf"
  /\ mode = CASE page = "pdf" -> "Detect_automatically"
              [] page = "pdfLazy" -> "auto"
              [] OTHER -> "none"
  \* the updateModeUI() call that follows the registration of the listener
  /\ enabledTargets = IF page = "pdf"
                        THEN PdfEnabledTargets("Detect_automatically")
                        ELSE {}
  /\ disabled = FALSE
  /\ progressShown = FALSE
  /\ dlVisible = FALSE
  /\ download = NoDownload
  /\ currentObjectUrl = NoUrl
  /\ urlCount = 0
  /\ liveUrls = {}
  /\ inflight = <<>>
  /\ reading = <<>>
  /\ currentSvgText = <<>>
  /\ tmpLive = 0
  /\ canEncodeWebP \in (IF page = "webp" THEN BOOLEAN ELSE {TRUE})
  /\ hasHeic2Any \in (IF page = "heic" THEN BOOLEAN ELSE {TRUE})
  /\ cleared = FALSE
  /\ last = Ev("load")
  /\ scripts = NoScripts
  /\ calc = NoCalc

Outcomes == {"ok", "err"}

Next ==
  \/ \E f \in Offered("webp") : WebpHandleFileSelect(f)
  \/ WebpChangeFile
  \/ WebpReset
  \/ \E from \in WebpFromOptions, to \in WebpToOptions : WebpPickFormats(from, to)
  \/ WebpSwap
  \/ WebpSubmit
  \/ \E i \in 1..Len(inflight), o \in Outcomes : WebpSettle(i, o)
  \/ \E f \in Offered("heic") : HeicHandleFileSelect(f)
  \/ HeicChangeFile
  \/ HeicReset
  \/ \E from \in HeicFromOptions, to \in HeicToOptions : HeicPickFormats(from, to)
  \/ HeicSubmit
  \/ \E i \in 1..Len(inflight), o \in Outcomes : HeicSettle(i, o)
  \/ \E f \in Offered("heicLazy") : HeicLazyHandleFile(f)
  \/ HeicLazyChangeFile
  \/ HeicLazyReset
  \/ \E to \in HeicLazyToOptions : HeicLazyPickTarget(to)
  \/ HeicLazySubmit
  \/ \E o \in Outcomes, defines \in BOOLEAN : HeicLazyScriptEvent(o, defines)
  \/ \E i \in 1..Len(inflight), o \in Outcomes : HeicLazySettle(i, o)
  \/ \E files \in Selections("pdfLazy") : PdfLazyHandleFiles(files)
  \/ PdfLazyChangeFile
  \/ PdfLazyReset
  \/ \E m \in PdfLazyModes, to \in PdfLazyToOptions : PdfLazyPick(m, to)
  \/ PdfLazySwap
  \/ PdfLazySubmit
  \/ \E src \in Srcs, o \in Outcomes, defines \in BOOLEAN :
       PdfLazyScriptEvent(src, o, defines)
  \/ \E i \in 1..Len(inflight), o \in Outcomes : PdfLazySettle(i, o)
  \/ \E m \in PdfModes : PdfPickMode(m)
  \/ \E to \in {"pdf", "jpg", "png"} : PdfPickTarget(to)
  \/ PdfSwap
  \/ \E files \in Selections("pdf") : PdfHandleFileSelection(files)
  \/ PdfChangeFile
  \/ PdfReset
  \/ PdfSubmit
  \/ \E i \in 1..Len(inflight), o \in Outcomes : PdfSettle(i, o)
  \/ \E f \in Offered("svg") : SvgDrop(f)
  \/ \E f \in Offered("svg") : SvgChange(f)
  \/ \E i \in 1..Len(reading), o \in Outcomes : SvgReadSettle(i, o)
  \/ resetAll
  \/ renderAndExport
  \/ \E i \in 1..Len(inflight), o \in Outcomes : SvgImageSettle(i, o)
  \/ \E i \in 1..Len(inflight), o \in Outcomes : SvgBlobSettle(i, o)

Spec == Init /\ [][Next]_vars

(***************************************************************************)
(* Functions applied on their own, to inputs drawn from bounded sets.      *)
(***************************************************************************)
\* the page's controls, untouched while a function is applied on its own
pageState == <<selectedFiles, selects, disabled, progressShown, dlVisible,
               urls, inflight, svgOnly, env, cleared, last>>

\* the calls of loadScriptOnce made so far
MaxCallers == 3

\* loadScriptOnce(src) is called: a promise is returned.  inFlight: the
\* element's fetch was pending when the call was made
LoaderCall(src) ==
  /\ calc.fn = "loadScriptOnce"
  /\ Len(calc.promises) < calc.max
  /\ scripts' = loadScriptOnce(src)
  /\ calc' = [calc EXCEPT !.promises =
                Append(@, [src |-> src,
                           state |-> loadPromise(src),
                           inFlight |-> scripts[src].state = "loading"])]
  /\ UNCHANGED pageState

\* the load or error event of the script element of src runs the listeners
\* the pending calls attached to it
LoaderEvent(src, o, defines) ==
  /\ calc.fn = "loadScriptOnce"
  /\ scripts[src].state = "loading"
  /\ scripts' = scriptEvent(src, o, defines)
  /\ calc' = [calc EXCEPT !.promises =
                [k \in 1..Len(@) |->
                   IF @[k].src = src /\ @[k].state = "pending"
                     THEN [@[k] EXCEPT !.state =
                             IF o = "ok" THEN "resolved" ELSE "rejected"]
                     ELSE @[k]]]
  /\ UNCHANGED pageState

(***************************************************************************)
(* converter-svg.js: parseSvgSize and the canvas size of renderAndExport.  *)
(* An attribute value is a sequence of characters, <<>> when the attribute *)
(* is absent or empty.  A number is a pair <<n, d>> standing for n / d,    *)
(* d a power of ten; Null (d = 0) stands for null.                         *)
(***************************************************************************)
\* the longest attribute value
MaxLen == 5

AttrChars == {"0", "3", ".", "x", " "}
IsDigit(c) == c \in {"0", "3"}
DigitVal(c) == IF c = "3" THEN 3 ELSE 0
Null == <<0, 0>>

RECURSIVE Pow10(_)
Pow10(k) == IF k = 0 THEN 1 ELSE 10 * Pow10(k - 1)

\* String.prototype.trim
RECURSIVE trim(_)
trim(s) ==
  IF s = <<>> THEN s
  ELSE IF Head(s) = " " THEN trim(Tail(s))
  ELSE IF s[Len(s)] = " " THEN trim(SubSeq(s, 1, Len(s) - 1))
  ELSE s

\* the length of the run of digits of s that starts at position i
RECURSIVE DigitRun(_, _)
DigitRun(s, i) ==
  IF i <= Len(s) /\ IsDigit(s[i]) THEN 1 + DigitRun(s, i + 1) ELSE 0

\* Number() of the n digits of s that start at position i
RECURSIVE NumberOf(_, _, _)
NumberOf(s, i, n) ==
  IF n = 0 THEN 0 ELSE 10 * NumberOf(s, i, n - 1) + DigitVal(s[i + n - 1])

\* parseLen(v): Number of the match of /^([0-9]*\.?[0-9]+)/ in the trimmed
\* value, null without a match
parseLen(v) ==
  IF v = <<>> THEN Null
  ELSE LET t == trim(v)
           n == DigitRun(t, 1)
           m == IF n + 1 <= Len(t) /\ t[n + 1] = "."
                  THEN DigitRun(t, n + 2) ELSE 0
       IN IF m > 0
            THEN <<NumberOf(t, 1, n) * Pow10(m) + NumberOf(t, n + 2, m),
                   Pow10(m)>>
          ELSE IF n > 0 THEN <<NumberOf(t, 1, n), 1>>
          ELSE Null

\* !v of a number or null
Falsy(v) == v[2] = 0 \/ v[1] = 0

\* a token of the split viewBox value after map(Number)
Tok(n) == [nan |-> FALSE, v |-> n]
NaNTok == [nan |-> TRUE, v |-> 0]
IsFiniteTok(t) == ~t.nan
\* vbAttr.trim().split(/[\s,]+/).map(Number).filter(Number.isFinite)
vbParts(vb) == SelectSeq(vb, IsFiniteTok)

\* Math.max(1, Math.min(v, 20000))
clampOff(v) == v
clamp(v) ==
  IF v[1] < v[2] THEN <<1, 1>>
  ELSE IF v[1] > 20000 * v[2] THEN <<20000, 1>>
  ELSE v

\* one dimension of parseSvgSize: attr is the width (height) attribute and
\* i the index of the width (height) in the viewBox
svgDimension(attr, vb, i) ==
  LET a == parseLen(attr)
      parts == vbParts(vb)
      b == IF Falsy(a) /\ vb # <<>> /\ Len(parts) = 4
             THEN <<parts[i].v, 1>> ELSE a
      c == IF Falsy(b) THEN <<512, 1>> ELSE b
  IN clamp(c)

\* parseSvgSize(svgText), of the parsed document: hasSvg tells whether
\* doc.querySelector("svg") finds an element
parseSvgSize(hasSvg, wAttr, hAttr, vbAttr) ==
  IF ~hasSvg THEN [width |-> <<512, 1>>, height |-> <<512, 1>>]
  ELSE [width |-> svgDimension(wAttr, vbAttr, 3),
        height |-> svgDimension(hAttr, vbAttr, 4)]

\* Math.max(1, Math.round(v * scale)) at scale 1; Math.round rounds a half up
canvasSize(v) ==
  LET r == (2 * v[1] + v[2]) \div (2 * v[2])
  IN IF r < 1 THEN 1 ELSE r

\* handleFile's svgIntrinsic = parseSvgSize(currentSvgText), then the
\* canvas size renderAndExport sets at scale 1
ParseApply ==
  /\ calc.fn = "parseSvgSize"
  /\ ~calc.done
  /\ LET r == parseSvgSize(calc.hasSvg, calc.wAttr, calc.hAttr, calc.vbAttr)
     IN calc' = [calc EXCEPT !.done = TRUE,
                             !.svgIntrinsic = r,
                             !.canvas = [width |-> canvasSize(r.width),
                                         height |-> canvasSize(r.height)]]
  /\ UNCHANGED <<pageState, scripts>>

\* attribute values of at most n characters
AttrValues(n) == UNION { [1..k -> AttrChars] : k \in 0..n }
\* the viewBox values: absent, "0 0 100 50", "0 0 100", "0 0 x 100 50",
\* "0 0 0 50", "0 0 -5 30000"
ViewBoxes ==
  { <<>>,
    <<Tok(0), Tok(0), Tok(100), Tok(50)>>,
    <<Tok(0), Tok(0), Tok(100)>>,
    <<Tok(0), Tok(0), NaNTok, Tok(100), Tok(50)>>,
    <<Tok(0), Tok(0), Tok(0), Tok(50)>>,
    <<Tok(0), Tok(0), Tok(0 - 5), Tok(30000)>> }
\* a call of parseSvgSize on a document
ParseInput(hasSvg, w, h, vb) ==
  [fn |-> "parseSvgSize", done |-> FALSE, hasSvg |-> hasSvg,
   wAttr |-> w, hAttr |-> h, vbAttr |-> vb,
   svgIntrinsic |-> [width |-> Null, height |-> Null],
   canvas |-> [width |-> 0, height |-> 0]]
\* every width of at most n characters, alone and beside the viewBox
\* "0 0 100 50"; every width of at most one character beside three heights
\* and every viewBox; and a document without an svg element
ParseInputs(n) ==
  { ParseInput(TRUE, w, <<>>, vb) :
      w \in AttrValues(n),
      vb \in {<<>>, <<Tok(0), Tok(0), Tok(100), Tok(50)>>} }
  \cup
  { ParseInput(TRUE, w, h, vb) :
      w \in AttrValues(1), h \in {<<>>, <<"3">>, <<"0">>}, vb \in ViewBoxes }
  \cup
  { ParseInput(FALSE, <<>>, <<>>, <<>>) }

(***************************************************************************)
(* converter-svg.js: sanitizeSvg.  A text is a sequence of characters;     *)
(* three attribute texts no pattern can match a part of are written as one *)
(* symbol each: "NS" for xmlns="http://www.w3.org/2000/svg", "NX" for      *)
(* xmlns:xlink="http://www.w3.org/1999/xlink", "XL" for xlink:href="#a".   *)
(* No text holds an upper-case letter, so the i flag changes no match.     *)
(***************************************************************************)
\* the pieces a body is made of
MaxAtoms == 3

sScript == <<"<", "s", "c", "r", "i", "p", "t">>
sEndScript == <<"<", "/", "s", "c", "r", "i", "p", "t", ">">>
sSvg == <<"<", "s", "v", "g">>
sEndSvg == <<"<", "/", "s", "v", "g", ">">>
Atoms ==
  { sScript \o <<">">>,                 \* <script>
    sScript \o <<"/", ">">>,            \* <script/>
    sEndScript,                         \* </script>
    <<"<", "/", "s", "c", "r", "i", "p", "t", " ", ">">>,  \* </script >
    <<"a">>,                            \* text
    <<"<", "g", " ", "XL", "/", ">">>,  \* <g xlink:href="#a"/>
    <<"<", "g", " ", "NS", "/", ">">> } \* <g xmlns="..."/>

\* pat occurs in t at position i
StartsAt(t, i, pat) ==
  i + Len(pat) - 1 <= Len(t) /\ SubSeq(t, i, i + Len(pat) - 1) = pat
\* the first position from i on where pat occurs in t, 0 when there is none
RECURSIVE FirstAt(_, _, _)
FirstAt(t, i, pat) ==
  IF i > Len(t) THEN 0
  ELSE IF StartsAt(t, i, pat) THEN i
  ELSE FirstAt(t, i + 1, pat)
Occurs(t, sym) == \E i \in 1..Len(t) : t[i] = sym

\* t.replace(/<script[\s\S]*?>[\s\S]*?<\/script>/gi, ""): one pass from
\* left to right; a match is "<script", the text up to the next ">" and
\* the text up to the next "</script>"
RECURSIVE removeScripts(_)
removeScripts(t) ==
  LET i == FirstAt(t, 1, sScript)
      j == IF i = 0 THEN 0 ELSE FirstAt(t, i + Len(sScript), <<">">>)
      k == IF j = 0 THEN 0 ELSE FirstAt(t, j + 1, sEndScript)
  IN IF k = 0 THEN t
     ELSE SubSeq(t, 1, i - 1)
            \o removeScripts(SubSeq(t, k + Len(sEndScript), Len(t)))

\* the first position where /<svg\b/ matches, 0 when there is none
WordChars == {"a", "c", "g", "i", "p", "r", "s", "t", "v"}
RECURSIVE FirstSvgTag(_, _)
FirstSvgTag(t, i) ==
  LET p == FirstAt(t, i, sSvg)
  IN IF p = 0 THEN 0
     ELSE IF p + Len(sSvg) > Len(t) \/ t[p + Len(sSvg)] \notin WordChars
       THEN p
     ELSE FirstSvgTag(t, p + 1)

\* if (!/xmlns=["']http:\/\/www\.w3\.org\/2000\/svg["']/.test(t))
\*   t = t.replace(/<svg\b/, `<svg xmlns="http://www.w3.org/2000/svg"`)
ensureXmlns(t) ==
  LET p == FirstSvgTag(t, 1)
  IN IF Occurs(t, "NS") \/ p = 0 THEN t
     ELSE SubSeq(t, 1, p + Len(sSvg) - 1) \o <<" ", "NS">>
            \o SubSeq(t, p + Len(sSvg), Len(t))

\* if (/xlink:href=/.test(t) && !/xmlns:xlink=/.test(t)): the first match
\* of /<svg\b([^>]*)>/ gets xmlns:xlink before its closing ">"
ensureXlink(t) ==
  LET p == FirstSvgTag(t, 1)
      q == IF p = 0 THEN 0 ELSE FirstAt(t, p + Len(sSvg), <<">">>)
  IN IF ~Occurs(t, "XL") \/ Occurs(t, "NX") \/ q = 0 THEN t
     ELSE SubSeq(t, 1, q - 1) \o <<" ", "NX">> \o SubSeq(t, q, Len(t))

\* sanitizeSvg(svgText)
sanitizeSvg(t) == ensureXlink(ensureXmlns(removeScripts(t)))

\* renderAndExport's clean = sanitizeSvg(currentSvgText)
SanitizeApply ==
  /\ calc.fn = "sanitizeSvg"
  /\ ~calc.done
  /\ calc' = [calc EXCEPT !.done = TRUE, !.clean = sanitizeSvg(calc.svgText)]
  /\ UNCHANGED <<pageState, scripts>>

RECURSIVE Flatten(_)
Flatten(ss) == IF ss = <<>> THEN <<>> ELSE Head(ss) \o Flatten(Tail(ss))
\* SVG markups: a root svg element with or without the namespace
\* declarations, around at most MaxAtoms pieces
Markups(n) ==
  { sSvg \o ns \o nx \o <<">">> \o Flatten(body) \o sEndSvg :
      ns \in {<<>>, <<" ", "NS">>},
      nx \in {<<>>, <<" ", "NX">>},
      body \in UNION { [1..k -> Atoms] : k \in 0..n } }
SanitizeInputs(n) ==
  { [fn |-> "sanitizeSvg", done |-> FALSE, svgText |-> t, clean |-> <<>>] :
      t \in Markups(n) }

(***************************************************************************)
(* converter-image-pdf.js: convertImagesToPdf, both variants.  Lengths are *)
(* hundredths of a point; one image pixel is drawn as one point.  A        *)
(* fraction <<n, d>> is kept in lowest terms.                              *)
(***************************************************************************)
\* the files of one call
MaxImages == 2

Img(w, h) == [kind |-> "image", w |-> w, h |-> h]
OtherFile == [kind |-> "other", w |-> 0, h |-> 0]
\* a small square image, a wide one, a tall one, and a file that is no image
PdfInputFiles == {Img(100, 100), Img(1000, 500), Img(500, 2000), OtherFile}
IsImage(f) == f.kind = "image"

RECURSIVE GCD(_, _)
GCD(a, b) == IF b = 0 THEN a ELSE GCD(b, a % b)
Frac(n, d) == LET g == GCD(n, d) IN <<n \div g, d \div g>>
\* f * k, f / 2, k - f and f <= g of fractions f, g and an integer k
FracTimes(f, k) ==
  LET g == GCD(k, f[2]) IN Frac(f[1] * (k \div g), f[2] \div g)
FracHalf(f) == Frac(f[1], 2 * f[2])
FracFrom(k, f) == Frac(k * f[2] - f[1], f[2])
FracLeq(f, g) == f[1] * g[2] <= g[1] * f[2]
FracMin(f, g) == IF FracLeq(f, g) THEN f ELSE g

\* jsPDF's formats "a4" and "letter", which are also the sizes table of the
\* lazy-loading variant: [595.28, 841.89] and [612, 792]
NamedFormat(key) ==
  IF key = "letter" THEN <<61200, 79200>> ELSE <<59528, 84189>>
\* the page jsPDF makes of a format and an orientation: portrait is never
\* wider than high, landscape never higher than wide
jsPdfPage(format, orientation) ==
  IF \/ orientation = "p" /\ format[1] > format[2]
     \/ orientation = "l" /\ format[2] > format[1]
    THEN <<format[2], format[1]>>
    ELSE format
\* the format [width, height] of a page that fits the image
fitFormatA4(img) == NamedFormat("a4")
fitFormat(img) == <<100 * img.w, 100 * img.h>>

\* the page and the drawing of one image, DOMContentLoaded variant
DclPdfPage(img, pageSize) ==
  LET W == 100 * img.w
      H == 100 * img.h
      pdfPage == IF pageSize = "fit-image"
                THEN jsPdfPage(fitFormat(img), IF W > H THEN "l" ELSE "p")
                ELSE jsPdfPage(NamedFormat(pageSize), "p")
      margin == 4000
      maxW == pdfPage[1] - margin * 2
      maxH == pdfPage[2] - margin * 2
      ratio == FracMin(FracMin(Frac(maxW, W), Frac(maxH, H)), <<1, 1>>)
      renderWidth == IF pageSize = "fit-image" THEN <<W, 1>>
                     ELSE FracTimes(ratio, W)
      renderHeight == IF pageSize = "fit-image" THEN <<H, 1>>
                      ELSE FracTimes(ratio, H)
  IN [size |-> pdfPage, img |-> img, margin |-> margin,
      w |-> renderWidth, h |-> renderHeight,
      x |-> FracHalf(FracFrom(pdfPage[1], renderWidth)),
      y |-> FracHalf(FracFrom(pdfPage[2], renderHeight))]

\* the page and the drawing of one image, lazy-loading variant
LazyPdfPage(img, pageSizeKey) ==
  LET fmt == IF pageSizeKey = "fit-image" THEN fitFormat(img)
             ELSE NamedFormat(pageSizeKey)
      pdfPage == jsPdfPage(fmt, IF fmt[1] >= fmt[2] THEN "l" ELSE "p")
      pageWidth == fmt[1]
      pageHeight == fmt[2]
      margin == 2000
      maxWidth == pageWidth - margin * 2
      maxHeight == pageHeight - margin * 2
      h1 == Frac(img.h * maxWidth, img.w)
      over == ~FracLeq(h1, <<maxHeight, 1>>)
      drawWidth == IF over THEN Frac(img.w * maxHeight, img.h)
                   ELSE <<maxWidth, 1>>
      drawHeight == IF over THEN <<maxHeight, 1>> ELSE h1
  IN [size |-> pdfPage, img |-> img, margin |-> margin,
      w |-> drawWidth, h |-> drawHeight,
      x |-> FracHalf(FracFrom(pageWidth, drawWidth)),
      y |-> FracHalf(FracFrom(pageHeight, drawHeight))]

\* convertImagesToPdf(files): the pages of the document, or a failure.  The
\* DOMContentLoaded variant rejects when a file does not decode as an image
\* or there is no file; the lazy-loading variant skips the files that are
\* no images and throws when none is left.
convertImagesToPdf(variant, files, pageSize) ==
  LET used == IF variant = "lazy" THEN SelectSeq(files, IsImage) ELSE files
      failed == used = <<>> \/ \E k \in 1..Len(used) : ~IsImage(used[k])
  IN [failed |-> failed,
      pages |-> IF failed THEN <<>>
                ELSE [k \in 1..Len(used) |->
                        IF variant = "lazy" THEN LazyPdfPage(used[k], pageSize)
                        ELSE DclPdfPage(used[k], pageSize)]]

ImagesToPdfApply ==
  /\ calc.fn = "convertImagesToPdf"
  /\ ~calc.done
  /\ calc' = [calc EXCEPT !.done = TRUE,
                !.pdf = convertImagesToPdf(calc.variant, calc.files,
                                           calc.pageSize)]
  /\ UNCHANGED <<pageState, scripts>>

ImagesToPdfInputs(n) ==
  { [fn |-> "convertImagesToPdf", done |-> FALSE, variant |-> v,
     files |-> fs, pageSize |-> ps,
     pdf |-> [failed |-> FALSE, pages |-> <<>>]] :
      v \in {"dcl", "lazy"},
      fs \in UNION { [1..k -> PdfInputFiles] : k \in 1..n },
      ps \in {"a4", "letter", "fit-image"} }

(***************************************************************************)
(* converter-image-pdf.js: PDF to images, both variants.  A result is the  *)
(* page it shows and the format it is encoded in.                          *)
(***************************************************************************)
\* the pages of the PDF document
MaxPages == 3

\* the MIME type chosen for canvas.toBlob: PNG for "png", JPEG otherwise
EncodedAs(target) == IF target = "png" THEN "png" ELSE "jpg"

\* convertPdfToImages(files), lazy-loading variant: the downloads it
\* triggers for a document of numPages pages
convertPdfToImages(numPages, target) ==
  [pageNum \in 1..numPages |->
     [page |-> pageNum, format |-> EncodedAs(target)]]

\* convertPdfToImage(file, targetFormat, quality), DOMContentLoaded
\* variant, and the one applyDownloadBlob of the submit handler
convertPdfToImage(numPages, target) ==
  <<[page |-> 1, format |-> EncodedAs(target)]>>

PdfToImagesApply ==
  /\ calc.fn = "convertPdfToImages"
  /\ ~calc.done
  /\ calc' = [calc EXCEPT !.done = TRUE,
                !.results = IF calc.variant = "lazy"
                              THEN convertPdfToImages(calc.numPages, calc.target)
                              ELSE convertPdfToImage(calc.numPages, calc.target)]
  /\ UNCHANGED <<pageState, scripts>>

\* documents of 1..n pages and the image targets of #to-format
PdfToImagesInputs(n) ==
  { [fn |-> "convertPdfToImages", done |-> FALSE, variant |-> v,
     numPages |-> k, target |-> t, results |-> <<>>] :
      v \in {"dcl", "lazy"}, k \in 1..n, t \in {"jpg", "png"} }

(***************************************************************************)
(* cookie-consent.js (and its earlier copy, part_000) with the analytics   *)
(* loader of app-nav.js.  localStorage outlives a page load; the banner's  *)
(* inline display, window.__gaLoaded and the script elements do not.  The  *)
(* banner is visible when its inline display is "block": the stylesheet    *)
(* hides it otherwise.                                                     *)
(***************************************************************************)
MaxLoads == 3

ConsentVariants == {"current", "part_000"}
\* localStorage of one page load: usable, refusing writes, or refusing
\* every access
StorageModes == {"ok", "readonly", "blocked"}
Choices == {"accepted", "declined"}

\* try { consent = localStorage.getItem("cookieConsent") } catch { null }
getItem(c) == IF c.storage = "blocked" THEN "none" ELSE c.stored
\* try { localStorage.setItem("cookieConsent", v) } catch { }
setItem(c, v) == IF c.storage = "ok" THEN v ELSE c.stored

\* loadGtag()
loadGtag(c) ==
  IF c.gaLoaded THEN c
  ELSE [c EXCEPT !.gaLoaded = TRUE, !.gaScripts = @ + 1]
\* enableAnalytics()
enableAnalytics(c) == IF c.hasLoader THEN loadGtag(c) ELSE c

\* the branch of the initial state that calls enableAnalytics
AnalyticsAtLoadAlways(consent) == TRUE
AnalyticsAtLoad(consent) == consent = "accepted"

\* the branch of the initial state that shows the banner
ShownAtLoadAlways(variant, consent) == TRUE
ShownAtLoad(variant, consent) ==
  IF variant = "current" THEN consent \notin Choices
  ELSE consent = "none"

\* banner.style.display after the initial state
BannerAtLoad(variant, consent) ==
  IF ShownAtLoad(variant, consent) THEN "block"
  ELSE IF variant = "current" THEN "none"
  ELSE ""

\* a page load: the DOMContentLoaded handler
ConsentLoad(storageMode) ==
  /\ calc.fn = "consent"
  /\ calc.loads < calc.max
  /\ LET fresh == [calc EXCEPT !.loads = @ + 1, !.storage = storageMode,
                               !.banner = "", !.gaLoaded = FALSE,
                               !.gaScripts = 0, !.consent = "none",
                               !.op = "load"]
         consent == getItem(fresh)
         shown == [fresh EXCEPT !.consent = consent,
                                !.banner = BannerAtLoad(calc.variant, consent)]
     IN calc' = IF ~calc.hasBanner THEN fresh
                ELSE IF calc.variant = "current" /\ AnalyticsAtLoad(consent)
                  THEN enableAnalytics(shown)
                ELSE shown
  /\ UNCHANGED <<pageState, scripts>>

\* the click listeners of #accept-cookies and #decline-cookies
ConsentClick(choice) ==
  /\ calc.fn = "consent"
  /\ calc.loads >= 1
  /\ calc.hasBanner
  /\ calc.banner = "block"
  /\ LET hidden == [calc EXCEPT !.stored = setItem(calc, choice),
                                !.banner = "none", !.op = choice]
     IN calc' = IF calc.variant = "current" /\ choice = "accepted"
                  THEN enableAnalytics(hidden)
                ELSE hidden
  /\ UNCHANGED <<pageState, scripts>>

\* a first visit: nothing stored
ConsentInputs(n) ==
  { [fn |-> "consent", variant |-> v, hasBanner |-> b, hasLoader |-> l,
     stored |-> "none", loads |-> 0, max |-> n, storage |-> "ok",
     banner |-> "", gaLoaded |-> FALSE, gaScripts |-> 0, consent |-> "none",
     op |-> "none"] :
    v \in ConsentVariants, b \in BOOLEAN, l \in BOOLEAN }

(***************************************************************************)
(* setStatus and setTemporaryStatus (app-common-ui.js, held in app-nav.js) *)
(* on one status element.  Time is a clock of ticks; a timer runs when the *)
(* clock has reached its due time, the earliest first and, among equal due *)
(* times, the one set first.                                               *)
(***************************************************************************)
MaxCalls == 3

Msg(t, v) == [text |-> t, variant |-> v]
\* what the converters pass to setStatus
PermanentMsgs == {Msg("selected", "muted"), Msg("failed", "error")}
\* what they pass to setTemporaryStatus
TemporaryMsgs == {Msg("reset", "muted"), Msg("note", "warning")}
\* durationMs, in ticks; 0 stands for durationMs <= 0
Durations == {0, 1, 2}

\* setStatus(el, message, variant)
setStatus(c, m) == [c EXCEPT !.shown = m]

\* setTemporaryStatus(el, message, variant, durationMs): prevText and
\* prevVariant are read from the element before the message is set
setTemporaryStatus(c, m, d) ==
  IF d <= 0 THEN setStatus(c, m)
  ELSE [setStatus(c, m) EXCEPT
          !.timers = Append(@, [due |-> c.now + d, prev |-> c.shown])]

\* a converter calls setStatus
StatusSet(m) ==
  /\ calc.fn = "setStatus"
  /\ calc.calls < calc.max
  /\ calc' = [setStatus(calc, m) EXCEPT !.calls = @ + 1, !.permanent = m]
  /\ UNCHANGED <<pageState, scripts>>

\* a converter calls setTemporaryStatus
StatusSetTemporary(m, d) ==
  /\ calc.fn = "setStatus"
  /\ calc.calls < calc.max
  /\ calc' = [setTemporaryStatus(calc, m, d) EXCEPT
                !.calls = @ + 1,
                !.permanent = IF d <= 0 THEN m ELSE @]
  /\ UNCHANGED <<pageState, scripts>>

\* the timer that runs next
NextTimer(c, k) ==
  /\ k \in 1..Len(c.timers)
  /\ c.timers[k].due <= c.now
  /\ \A j \in 1..Len(c.timers) :
       \/ c.timers[j].due > c.timers[k].due
       \/ c.timers[j].due = c.timers[k].due /\ j >= k

\* the callback of window.setTimeout: setStatus(el, prevText, prevVariant)
StatusTimer(k) ==
  /\ calc.fn = "setStatus"
  /\ NextTimer(calc, k)
  /\ calc' = [setStatus(calc, calc.timers[k].prev) EXCEPT
                !.timers = RemoveAt(@, k)]
  /\ UNCHANGED <<pageState, scripts>>

\* time passes while a timer waits
StatusTick ==
  /\ calc.fn = "setStatus"
  /\ calc.timers # <<>>
  /\ \A k \in 1..Len(calc.timers) : calc.timers[k].due > calc.now
  /\ calc' = [calc EXCEPT !.now = @ + 1]
  /\ UNCHANGED <<pageState, scripts>>

\* the element after the script's first setStatus call
StatusInputs(n) ==
  { [fn |-> "setStatus", shown |-> Msg("none yet", "muted"),
     permanent |-> Msg("none yet", "muted"), timers |-> <<>>, now |-> 0,
     calls |-> 0, max |-> n] }

\* the functions and the inputs they are applied to
CalcInputs(callers, len, atoms, images) ==
  {[fn |-> "loadScriptOnce", promises |-> <<>>, max |-> callers]}
  \cup ParseInputs(len)
  \cup SanitizeInputs(atoms)
  \cup ImagesToPdfInputs(images)

CalcInit ==
  /\ page = "pdfLazy"
  /\ selectedFiles = <<>>
  /\ fromFormat = "auto"
  /\ toFormat = "pdf"
  /\ mode = "auto"
  /\ enabledTargets = {}
  /\ disabled = FALSE
  /\ progressShown = FALSE
  /\ dlVisible = FALSE
  /\ download = NoDownload
  /\ currentObjectUrl = NoUrl
  /\ urlCount = 0
  /\ liveUrls = {}
  /\ inflight = <<>>
  /\ reading = <<>>
  /\ currentSvgText = <<>>
  /\ tmpLive = 0
  /\ canEncodeWebP = TRUE
  /\ hasHeic2Any = TRUE
  /\ cleared = FALSE
  /\ last = Ev("load")
  /\ scripts = NoScripts
  /\ calc \in CalcInputs(MaxCallers, MaxLen, MaxAtoms, MaxImages)
                \cup PdfToImagesInputs(MaxPages)
                \cup ConsentInputs(MaxLoads)
                \cup StatusInputs(MaxCalls)

CalcNext ==
  \/ \E src \in Srcs : LoaderCall(src)
  \/ \E src \in Srcs, o \in Outcomes, defines \in BOOLEAN :
       LoaderEvent(src, o, defines)
  \/ ParseApply
  \/ SanitizeApply
  \/ ImagesToPdfApply
  \/ PdfToImagesApply
  \/ \E storageMode \in StorageModes : ConsentLoad(storageMode)
  \/ \E choice \in Choices : ConsentClick(choice)
  \/ \E m \in PermanentMsgs : StatusSet(m)
  \/ \E m \in TemporaryMsgs, d \in Durations : StatusSetTemporary(m, d)
  \/ \E k \in 1..MaxCalls : StatusTimer(k)
  \/ StatusTick

CalcSpec == CalcInit /\ [][CalcNext]_vars

(***************************************************************************)
(* Properties.                                                             *)
(***************************************************************************)
DclPages == {"webp", "heic", "pdf"}
LazyPages == {"heicLazy", "pdfLazy"}
MultiFormatPages == {"webp", "heic", "heicLazy", "pdf", "pdfLazy"}

\* the files of a list
FilesOf(list) == {list[k] : k \in 1..Len(list)}

\* C1: in every converter, the run in which a conversion settles (by a
\* result or by an error) leaves the submit control enabled and the
\* progress UI hidden.
C1_CleanupOnSettle ==
  [][Len(inflight') < Len(inflight) => ~disabled' /\ ~progressShown']_vars

\* a failed submission has just ended, and the control is enabled again
C1_Witness ==
  /\ last.handler = "failed"
  /\ ~disabled
  /\ ~progressShown

\* C2: at most one conversion is in flight, and while one is the submit
\* control is disabled.
C2_SingleInFlight ==
  /\ Len(inflight) <= 1
  /\ inflight # <<>> => disabled

\* C3: a submission with no selected file changes neither the conversions
\* in flight, nor the submit control, nor the progress UI, nor the working
\* set, nor the result reference.
C3_EmptySubmitIsIdle ==
  [][(last'.handler = "submit" /\ selectedFiles = <<>>)
       => UNCHANGED <<inflight, disabled, progressShown, selectedFiles,
                      currentObjectUrl, urlCount, liveUrls, dlVisible>>]_vars

\* the submit handler has just run with nothing selected
C3_Witness ==
  /\ last.handler = "submit"
  /\ selectedFiles = <<>>
  /\ inflight = <<>>
  /\ ~disabled

\* C4: in the DOMContentLoaded converters at most one result URL is
\* unrevoked, and it is the one currentObjectUrl holds.
C4_AtMostOneLiveUrl ==
  page \in DclPages =>
    /\ Cardinality(liveUrls) <= 1
    /\ liveUrls \subseteq {currentObjectUrl}

\* a second result URL was created, and the first is revoked
C4_Witness ==
  /\ page \in DclPages
  /\ urlCount = 2
  /\ liveUrls = {2}

\* C5: in the SVG converter and the lazy-loading HEIC and image/PDF
\* converters, once two result URLs were created only the latest is
\* unrevoked.
C5_OnlyLatestLive ==
  (page \in {"svg"} \cup LazyPages /\ urlCount >= 2) => liveUrls = {urlCount}

\* C6: in the DOMContentLoaded converters, from a reset or change-file until
\* the next submission starts, no result URL is live and the download link
\* is hidden.
C6_ClearedStaysClean ==
  (page \in DclPages /\ cleared) => (liveUrls = {} /\ ~dlVisible)

\* C7: after a submission ended in failed, no download link is visible.
C7_FailedHidesLink ==
  last.handler = "failed" => ~dlVisible

\* C8: in the DOMContentLoaded converters no file above 20 MB is in the
\* working set, and a selection made of oversized files only leaves the
\* working set as it was.
C8_OversizedRejected ==
  /\ [](page \in DclPages => \A f \in FilesOf(selectedFiles) : f.size <= MAX_SIZE)
  /\ [][(page \in DclPages /\ last'.handler = "select" /\ last'.oversized)
          => selectedFiles' = selectedFiles]_vars

\* an oversized file was offered while a valid selection existed
C8_Witness ==
  /\ page \in DclPages
  /\ last.handler = "select"
  /\ last.oversized
  /\ selectedFiles # <<>>

\* C9: in every multi-format converter no file above 20 MB is in the
\* working set.
C9_NoOversizedFile ==
  page \in MultiFormatPages =>
    \A f \in FilesOf(selectedFiles) : f.size <= MAX_SIZE

\* the allowed set of each converter: MIME types and filename extensions
AllowedTypes(p) ==
  CASE p = "svg" -> {"image/svg+xml"}
    [] p = "webp" -> {"image/webp", "image/png", "image/jpeg", "image/gif"}
    [] p \in {"heic", "heicLazy"} ->
         {"image/heic", "image/heif", "image/jpeg", "image/png"}
    [] OTHER -> {"application/pdf", "image/png", "image/jpeg", "image/webp",
                 "image/gif", "image/bmp"}
AllowedExts(p) ==
  CASE p = "svg" -> {"svg"}
    [] p = "webp" -> {"webp", "png", "jpg", "jpeg", "gif"}
    [] p \in {"heic", "heicLazy"} -> {"heic", "heif", "jpg", "jpeg", "png"}
    [] OTHER -> {"pdf", "png", "jpg", "jpeg", "webp", "gif", "bmp"}
InAllowedSet(p, f) == f.type \in AllowedTypes(p) \/ f.ext \in AllowedExts(p)

\* C10: in every converter, every file of the working set and every file
\* handed to an adapter has its MIME type or its extension in the
\* converter's allowed set.
C10_OnlyAllowedFiles ==
  /\ \A f \in FilesOf(selectedFiles) : InAllowedSet(page, f)
  /\ \A k \in 1..Len(inflight) :
       \A f \in FilesOf(inflight[k].src) : InAllowedSet(page, f)

PdfPages == {"pdf", "pdfLazy"}
AutoModes == {"Detect_automatically", "auto"}

C12_MixedRejected ==
  /\ [][(page \in PdfPages /\ mode \in AutoModes
          /\ last'.handler = "select" /\ last'.mixed)
          => selectedFiles' = selectedFiles]_vars
  /\ [](page \in PdfPages =>
         \A k \in 1..Len(inflight) :
           ~(/\ \E f \in FilesOf(inflight[k].src) : IsImageType(f)
             /\ \E f \in FilesOf(inflight[k].src) : IsPdfType(f)))

\* C13: in the HEIC converter, a submission of a JPG or PNG file with the
\* target heic starts no conversion and leaves the submit control enabled,
\* whatever the source-format select holds.
C13_ToHeicRejected ==
  [][(/\ page = "heic"
      /\ last'.handler = "submit"
      /\ selectedFiles # <<>>
      /\ selectedFiles[1].type \in {"image/jpeg", "image/png"}
      /\ toFormat = "heic")
       => (inflight' = inflight /\ ~disabled' /\ ~progressShown')]_vars

\* C14: in the WebP converter, a submission with the target webp in a
\* browser that cannot encode WebP starts no conversion, leaves the submit
\* control and the progress UI as they were, and sets an error status.
C14_NoWebpEncoderRejected ==
  [][(/\ page = "webp"
      /\ last'.handler = "submit"
      /\ selectedFiles # <<>>
      /\ toFormat = "webp"
      /\ ~canEncodeWebP)
       => (/\ inflight' = inflight
           /\ UNCHANGED <<disabled, progressShown>>
           /\ ~disabled'
           /\ last'.status = "error")]_vars

\* a submission was just rejected for the missing WebP encoder
C14_Witness ==
  /\ page = "webp"
  /\ ~canEncodeWebP
  /\ toFormat = "webp"
  /\ selectedFiles # <<>>
  /\ last.handler = "submit"
  /\ last.status = "error"
  /\ inflight = <<>>
  /\ ~disabled

\* C15: loadScriptOnce leaves at most one script element per source in the
\* document, and a caller that arrived while the element's fetch was in
\* flight settles on that element's load or error event: resolved by
\* load, rejected by error.
C15_OneFetchPerSource ==
  /\ [](\A s \in Srcs : scripts[s].els <= 1)
  /\ [][calc.fn = "loadScriptOnce" =>
         \A s \in Srcs :
           (scripts[s].state = "loading" /\ scripts'[s].state # "loading")
             => \A k \in 1..Len(calc.promises) :
                  (calc.promises[k].src = s /\ calc.promises[k].inFlight)
                    => calc'.promises[k].state =
                         (IF scripts'[s].state = "loaded" THEN "resolved"
                          ELSE "rejected")]_vars

\* two callers of one source, the second arrived while the fetch was in
\* flight, were settled by the one element's event
C15_Witness ==
  /\ calc.fn = "loadScriptOnce"
  /\ \E j, k \in 1..Len(calc.promises) :
       /\ j < k
       /\ calc.promises[j].src = calc.promises[k].src
       /\ ~calc.promises[j].inFlight
       /\ calc.promises[k].inFlight
       /\ calc.promises[j].state = "rejected"
       /\ calc.promises[k].state = "rejected"
       /\ scripts[calc.promises[k].src].els = 1

\* C16: a submission that needs a library whose script is absent or failed
\* to load ends as failed.  A conversion that awaits a script can only be
\* ended by that script's load or error event, so at every moment the
\* script it awaits must still have its event to come.
C16_LibraryFailureReported ==
  page \in LazyPages =>
    \A k \in 1..Len(inflight) :
      inflight[k].stage = "script"
        => scripts[inflight[k].lib].state = "loading"

\* numbers <<n, d>>: equality, and the value bounded to [1, 20000]
SameNumber(a, b) == a[1] * b[2] = b[1] * a[2]
Bounded(v) ==
  IF v[1] < v[2] THEN <<1, 1>>
  ELSE IF v[1] > 20000 * v[2] THEN <<20000, 1>>
  ELSE v
\* the viewBox holds four numbers and nothing else
ProperViewBox(vb) == Len(vb) = 4 /\ \A k \in 1..4 : ~vb[k].nan

\* a dimension as the claim has it: the attribute's number; the viewBox's
\* when the attribute is missing; 512 when neither is given; bounded to
\* [1, 20000]; and the canvas of exactly that size
DimAsClaimed(attr, vb, i, dim, cv) ==
  (/\ attr = <<>> \/ parseLen(attr) # Null
   /\ vb = <<>> \/ ProperViewBox(vb))
    => LET want == IF attr # <<>> THEN parseLen(attr)
                   ELSE IF vb # <<>> THEN <<vb[i].v, 1>>
                   ELSE <<512, 1>>
       IN /\ SameNumber(dim, Bounded(want))
          /\ SameNumber(<<cv, 1>>, dim)

\* C17: parseSvgSize takes each dimension from the width / height
\* attribute, from the viewBox when the attribute is missing, 512 when
\* neither is given, bounded to [1, 20000], and at scale 1 the canvas has
\* exactly these dimensions.
C17_ParseSvgSize ==
  (calc.fn = "parseSvgSize" /\ calc.done /\ calc.hasSvg) =>
    /\ DimAsClaimed(calc.wAttr, calc.vbAttr, 3, calc.svgIntrinsic.width,
                    calc.canvas.width)
    /\ DimAsClaimed(calc.hAttr, calc.vbAttr, 4, calc.svgIntrinsic.height,
                    calc.canvas.height)

\* a dimension as the code computes it: the attribute's leading number
\* when it is not zero; else the viewBox's when its finite numbers are
\* exactly four and that one is not zero; else 512; bounded to [1, 20000];
\* and the canvas of that size rounded to the nearest integer, a half up
DimAmended(attr, vb, i, dim, cv) ==
  LET a == parseLen(attr)
      parts == SelectSeq(vb, LAMBDA t : ~t.nan)
      want == IF a # Null /\ a[1] # 0 THEN a
              ELSE IF Len(parts) = 4 /\ parts[i].v # 0 THEN <<parts[i].v, 1>>
              ELSE <<512, 1>>
  IN /\ dim[2] > 0 /\ dim[2] <= dim[1] /\ dim[1] <= 20000 * dim[2]
     /\ SameNumber(dim, Bounded(want))
     /\ cv >= 1
     /\ 2 * cv * dim[2] <= 2 * dim[1] + dim[2]
     /\ 2 * dim[1] + dim[2] < 2 * (cv + 1) * dim[2]

\* C17, amended: each dimension is the attribute's leading number unless
\* that is missing, unparsable or zero, then the viewBox's unless that is
\* missing, malformed or zero, then 512; each is bounded to [1, 20000] for
\* every input, 512 x 512 without an svg element; at scale 1 the canvas has
\* these dimensions rounded to the nearest integer.
C17_ParseSvgSizeAmended ==
  (calc.fn = "parseSvgSize" /\ calc.done) =>
    IF calc.hasSvg
      THEN /\ DimAmended(calc.wAttr, calc.vbAttr, 3,
                         calc.svgIntrinsic.width, calc.canvas.width)
           /\ DimAmended(calc.hAttr, calc.vbAttr, 4,
                         calc.svgIntrinsic.height, calc.canvas.height)
      ELSE /\ calc.svgIntrinsic = [width |-> <<512, 1>>, height |-> <<512, 1>>]
           /\ calc.canvas = [width |-> 512, height |-> 512]

\* a width attribute above 20000 and a height taken from the viewBox
C17_Witness ==
  /\ calc.fn = "parseSvgSize" /\ calc.done /\ calc.hasSvg
  /\ parseLen(calc.wAttr)[1] > 20000 * parseLen(calc.wAttr)[2]
  /\ calc.hAttr = <<>>
  /\ calc.vbAttr = <<Tok(0), Tok(0), Tok(100), Tok(50)>>
  /\ calc.svgIntrinsic = [width |-> <<20000, 1>>, height |-> <<50, 1>>]
  /\ calc.canvas = [width |-> 20000, height |-> 50]

\* the text holds a start tag of a script element
HasScriptElement(t) ==
  \E i \in 1..Len(t) :
    /\ StartsAt(t, i, sScript)
    /\ i + Len(sScript) <= Len(t)
    /\ t[i + Len(sScript)] \in {">", "/", " "}
\* the start tag of the root element, which every markup begins with,
\* holds the attribute sym
RootDeclares(t, sym) ==
  \E q \in 1..Len(t) :
    /\ t[q] = ">"
    /\ \A r \in 1..(q - 1) : t[r] # ">"
    /\ \E r \in 1..(q - 1) : t[r] = sym

\* C18: the output of sanitizeSvg holds no script element, declares the
\* SVG namespace on its root element, and declares the xlink namespace
\* there when xlink:href is used.
C18_SanitizedMarkup ==
  (calc.fn = "sanitizeSvg" /\ calc.done) =>
    /\ ~HasScriptElement(calc.clean)
    /\ RootDeclares(calc.clean, "NS")
    /\ Occurs(calc.clean, "XL") => RootDeclares(calc.clean, "NX")

\* the images among the files of a call
InputImages == SelectSeq(calc.files, LAMBDA f : f.kind = "image")

\* C19: with the page size fit-image, the document has one page per input
\* image, in input order, and the size of each page is the pixel width and
\* height of its image.
C19_FitImagePages ==
  (/\ calc.fn = "convertImagesToPdf" /\ calc.done
   /\ calc.pageSize = "fit-image" /\ ~calc.pdf.failed)
    => /\ Len(calc.pdf.pages) = Len(InputImages)
       /\ \A k \in 1..Len(InputImages) :
            calc.pdf.pages[k].size =
              <<100 * InputImages[k].w, 100 * InputImages[k].h>>

\* a document of a wide and a tall image, in that order
C19_Witness ==
  /\ calc.fn = "convertImagesToPdf" /\ calc.done
  /\ calc.pageSize = "fit-image" /\ ~calc.pdf.failed
  /\ Len(calc.pdf.pages) = 2
  /\ calc.pdf.pages[1].size = <<100000, 50000>>
  /\ calc.pdf.pages[2].size = <<50000, 200000>>

\* C20: with the page size a4 or letter, every image is drawn no larger
\* than its pixel size, within the page less the margin on each side, in
\* its own aspect ratio, and centred on the page, in both variants.
C20_FixedPageDrawing ==
  (/\ calc.fn = "convertImagesToPdf" /\ calc.done
   /\ calc.pageSize \in {"a4", "letter"})
    => \A k \in 1..Len(calc.pdf.pages) :
         LET p == calc.pdf.pages[k]
         IN /\ FracLeq(p.w, <<100 * p.img.w, 1>>)
            /\ FracLeq(p.h, <<100 * p.img.h, 1>>)
            /\ FracLeq(p.w, <<p.size[1] - 2 * p.margin, 1>>)
            /\ FracLeq(p.h, <<p.size[2] - 2 * p.margin, 1>>)
            /\ FracTimes(p.w, p.img.h) = FracTimes(p.h, p.img.w)
            /\ FracTimes(p.x, 2) = FracFrom(p.size[1], p.w)
            /\ FracTimes(p.y, 2) = FracFrom(p.size[2], p.h)

\* C21: for a PDF of N pages the converter publishes N results, the k-th
\* showing page k in the requested format, in both variants.
C21_OneResultPerPage ==
  (calc.fn = "convertPdfToImages" /\ calc.done) =>
    /\ Len(calc.results) = calc.numPages
    /\ \A k \in 1..Len(calc.results) :
         calc.results[k] = [page |-> k, format |-> calc.target]

C23_BannerFollowsStoredChoice ==
  (calc.fn = "consent" /\ calc.hasBanner) =>
    /\ calc.op = "load" => (calc.banner = "block" <=> calc.stored = "none")
    /\ calc.op \in Choices =>
         calc.stored = calc.op /\ calc.banner # "block"

\* C23, amended: after a page load the banner is shown exactly when no
\* choice can be read (none is stored, or localStorage refuses the read);
\* a click hides the banner and stores the choice when localStorage takes
\* the write
C23_BannerFollowsReadableChoice ==
  (calc.fn = "consent" /\ calc.hasBanner) =>
    /\ calc.op = "load" =>
         (calc.banner = "block" <=>
            (calc.stored = "none" \/ calc.storage = "blocked"))
    /\ calc.op \in Choices =>
         /\ calc.banner # "block"
         /\ calc.storage = "ok" => calc.stored = calc.op

\* a later page load that finds the stored choice and keeps the banner hidden
C23_Witness ==
  /\ calc.fn = "consent" /\ calc.hasBanner
  /\ calc.op = "load" /\ calc.loads >= 2
  /\ calc.stored = "declined" /\ calc.storage = "ok"
  /\ calc.banner # "block"

(***************************************************************************)
(* C30: the analytics script is on the page only when the consent read at  *)
(* page load was "accepted" or the accept button was clicked on this page. *)
(***************************************************************************)
C30_AnalyticsOnlyOnAccept ==
  (calc.fn = "consent" /\ calc.gaScripts > 0) =>
    calc.consent = "accepted" \/ calc.op = "accepted"

\* a page load that found "accepted" and loaded the script
C30_Witness ==
  /\ calc.fn = "consent"
  /\ calc.op = "load" /\ calc.consent = "accepted"
  /\ calc.gaScripts = 1

(***************************************************************************)
(* C24: on the DOMContentLoaded image/PDF converter the target agrees with *)
(* the mode: in PDF-to-images mode the target is jpg or png and the pdf    *)
(* option is disabled; in every other mode the target is pdf and the jpg   *)
(* and png options are disabled.                                           *)
(***************************************************************************)
C24_TargetAgreesWithMode ==
  page = "pdf" =>
    IF isPdfToImagesMode(mode)
      THEN toFormat \in {"jpg", "png"} /\ enabledTargets = {"jpg", "png"}
      ELSE toFormat = "pdf" /\ enabledTargets = {"pdf"}

\* automatic detection on the selection of a PDF moved the page into
\* PDF-to-images mode and the target off pdf
C24_Witness ==
  /\ page = "pdf"
  /\ last.handler = "select"
  /\ isPdfToImagesMode(mode)
  /\ toFormat = "jpg"
  /\ selectedFiles = <<fPdf>>

(***************************************************************************)
(* C25: on the DOMContentLoaded image/PDF converter every adapter call of  *)
(* a submission gets files that match the mode: one PDF in PDF-to-images   *)
(* mode, images only in the images-to-PDF modes.                           *)
(***************************************************************************)
C25_AdapterInputMatchesMode ==
  page = "pdf" =>
    \A i \in 1..Len(inflight) :
      IF isPdfToImagesMode(inflight[i].from)
        THEN Len(inflight[i].src) = 1 /\ IsPdfType(inflight[i].src[1])
        ELSE \A k \in 1..Len(inflight[i].src) : IsImageType(inflight[i].src[k])

(***************************************************************************)
(* C26: on the WebP and the lazy-loading HEIC converter the name of a      *)
(* published result is built from the name of the file whose content was   *)
(* converted, also when another file was selected during the conversion.   *)
(***************************************************************************)
C26_NameOfConvertedFile ==
  (page \in {"webp", "heicLazy"} /\ download # NoDownload) =>
    download.name = download.content

(***************************************************************************)
(* C27: on the SVG converter a non-empty currentSvgText is the text of     *)
(* currentFile, under every interleaving of file arrivals and reads.       *)
(***************************************************************************)
C27_TextOfCurrentFile ==
  (page = "svg" /\ currentSvgText # <<>>) => currentSvgText = selectedFiles

(***************************************************************************)
(* C29: every temporary object URL of svgToImage is revoked once its image *)
(* load has settled: the live ones belong to pending loads.                *)
(***************************************************************************)
C29_TemporaryUrlsRevoked ==
  page = "svg" =>
    tmpLive = Cardinality({i \in 1..Len(inflight) :
                             inflight[i].stage = "image"})

(***************************************************************************)
(* C28: once every pending timer of setTemporaryStatus has run, the status *)
(* element shows the message of the most recent setStatus call that was    *)
(* not a temporary message.                                                *)
(***************************************************************************)
C28_LaterMessageKept ==
  (calc.fn = "setStatus" /\ calc.timers = <<>>) =>
    calc.shown = calc.permanent

====
